---- MODULE Spec2Model ----
(***************************************************************************)
(* Model of the sillyvpn privileged helper (src-tauri/src/bin/             *)
(* sillyvpn-helper.rs): the enable / disable / run lifecycle of the        *)
(* network sandbox, one helper invocation at a time, one external command  *)
(* or file operation per step, against a model of the host (kernel network *)
(* objects, iptables rule lists and the files the helper touches).         *)
(*                                                                         *)
(* A program string is a sequence of tokens.  A one-character token stands *)
(* for that character; a longer token stands for a run of ordinary         *)
(* characters (letters, digits, '-', '_', '/' inside a word: none of them  *)
(* a quote, a backslash, white space or the punctuation the parsers look   *)
(* at).                                                                    *)
(***************************************************************************)
EXTENDS Naturals, Integers, Sequences, FiniteSets, Bags, TLC

\* ---------------------------------------------------------------- bounds
\* number of helper invocations in one behaviour
MaxRuns == 2
\* number of commands and file operations that fail although they could
\* have done their work, in one behaviour
MaxFaults == 2

\* longest configuration, in lines, given to the sanitizer on its own
MaxLines == 3

\* the pids of the process table are 1..MaxPid
MaxPid == 2

\* processes that exit on their own or start while the locator runs
MaxChurn == 2

\* number of enable and disable invocations in one sequence, and of
\* failures without a reason in it
MaxSeq == 3
MaxSeqFaults == 1

\* ------------------------------------------------------ program constants
NS_NAME == <<"sillyvpn-ns">>
VETH_HOST == <<"svpn0">>
VETH_NS == <<"svpn1">>
VETH_HOST_IP == <<"10.200.0.1/24">>
VETH_NS_IP == <<"10.200.0.2/24">>
VETH_SUBNET == <<"10.200.0.0/24">>
TABLE_ID == <<"51820">>
FWMARK == <<"0x51">>
STATE_DIR == <<"/", "run", "/", "sillyvpn">>

\* A tuple of words as a tuple of program strings.
L(words) == [i \in DOMAIN words |-> <<words[i]>>]

Q == "\""
BS == "\\"

\* ------------------------------------------------------------- paths
\* Path::join
PathJoin(dir, name) == dir \o <<"/">> \o name

\* Position of the last token of s equal to c, 0 when there is none.
LastIndexOf(s, c) ==
  IF \E i \in DOMAIN s : s[i] = c
  THEN CHOOSE i \in DOMAIN s : s[i] = c /\ \A j \in DOMAIN s : s[j] = c => j <= i
  ELSE 0

\* Path::file_name: the final component
FileName(path) == SubSeq(path, LastIndexOf(path, "/") + 1, Len(path))

\* Path::file_stem: the file name up to its last '.', the whole name when it
\* has none or only a leading one
FileStem(path) ==
  LET name == FileName(path)
      k == LastIndexOf(name, ".")
  IN IF k <= 1 THEN name ELSE SubSeq(name, 1, k - 1)

\* ------------------------------------------------------- session record
\* format!("{{\"wg_ifname\":\"{}\",...}}"): the fields are pasted between
\* the quotes as they are.
FormatState(st) ==
  <<"{", Q, "wg_ifname", Q, ":", Q>> \o st.wg_ifname
  \o <<Q, ",", Q, "config_path", Q, ":", Q>> \o st.config_path
  \o <<Q, ",", Q, "temp_config", Q, ":", Q>> \o st.temp_config
  \o <<Q, ",", Q, "ip_forward_prev", Q, ":", Q>> \o st.ip_forward_prev
  \o <<Q, "}">>

\* serde_json: the characters that may follow a backslash inside a string
\* (\u escapes are not modelled; no modelled text contains one)
EscapeChars == {Q, BS, "/", "b", "f", "n", "r", "t"}
Unescape(c) ==
  CASE c = "b" -> "<BS>" [] c = "f" -> "<FF>" [] c = "n" -> "<LF>"
    [] c = "r" -> "<CR>" [] c = "t" -> "<TAB>" [] OTHER -> c

ParseFail == [ok |-> FALSE, val |-> << >>, next |-> 0]

\* A JSON string whose opening quote is at s[i-1]: the decoded text and the
\* position after the closing quote.
RECURSIVE ScanString(_, _, _)
ScanString(s, i, acc) ==
  IF i > Len(s) THEN ParseFail
  ELSE IF s[i] = Q THEN [ok |-> TRUE, val |-> acc, next |-> i + 1]
  ELSE IF s[i] = BS
       THEN IF i + 1 > Len(s) \/ s[i + 1] \notin EscapeChars
            THEN ParseFail
            ELSE ScanString(s, i + 2, Append(acc, Unescape(s[i + 1])))
  ELSE ScanString(s, i + 1, Append(acc, s[i]))

\* The members of a JSON object whose first key starts at s[i]; every value
\* is a string (the text FormatState produces can hold no other value: the
\* pasted fields contain no ',' ':' '{' '}' in the modelled inputs).
RECURSIVE ScanMembers(_, _, _)
ScanMembers(s, i, acc) ==
  IF i > Len(s) \/ s[i] # Q THEN ParseFail
  ELSE LET k == ScanString(s, i + 1, << >>) IN
    IF ~k.ok \/ k.next + 1 > Len(s) \/ s[k.next] # ":" \/ s[k.next + 1] # Q THEN ParseFail
    ELSE LET v == ScanString(s, k.next + 2, << >>) IN
      IF ~v.ok \/ v.next > Len(s) THEN ParseFail
      ELSE LET acc2 == Append(acc, <<k.val, v.val>>) IN
        IF s[v.next] = "," THEN ScanMembers(s, v.next + 1, acc2)
        ELSE IF s[v.next] = "}" /\ v.next = Len(s)
             THEN [ok |-> TRUE, val |-> acc2, next |-> v.next + 1]
             ELSE ParseFail

\* serde_json::from_str on the text of the state file
JsonParse(s) ==
  IF Len(s) < 2 \/ s[1] # "{" THEN ParseFail
  ELSE IF s = <<"{", "}">> THEN [ok |-> TRUE, val |-> << >>, next |-> 3]
  ELSE ScanMembers(s, 2, << >>)

\* value[key].as_str().unwrap_or(default): the last member named key
JsonStr(members, key, default) ==
  IF \E i \in DOMAIN members : members[i][1] = key
  THEN members[CHOOSE i \in DOMAIN members : members[i][1] = key
                 /\ \A j \in DOMAIN members : members[j][1] = key => j <= i][2]
  ELSE default

\* read_state on the content of the state file: the record, or an error
ParseState(content) ==
  LET p == JsonParse(content) IN
  IF ~p.ok THEN [ok |-> FALSE]
  ELSE [ok |-> TRUE,
        wg_ifname |-> JsonStr(p.val, <<"wg_ifname">>, <<"wg0">>),
        config_path |-> JsonStr(p.val, <<"config_path">>, << >>),
        temp_config |-> JsonStr(p.val, <<"temp_config">>, << >>),
        ip_forward_prev |-> JsonStr(p.val, <<"ip_forward_prev">>, <<"0">>)]


\* ----------------------------------------------------- config sanitizer
\* A configuration file is a sequence of lines, a line a sequence of tokens.
WhiteSpace == {" ", "<TAB>", "<LF>"}

\* str::trim
RECURSIVE TrimStart(_)
TrimStart(line) ==
  IF line # << >> /\ line[1] \in WhiteSpace THEN TrimStart(Tail(line)) ELSE line
RECURSIVE TrimEnd(_)
TrimEnd(line) ==
  IF line # << >> /\ line[Len(line)] \in WhiteSpace
  THEN TrimEnd(SubSeq(line, 1, Len(line) - 1)) ELSE line
Trim(line) == TrimEnd(TrimStart(line))

\* str::to_ascii_lowercase on the words the modelled files contain
LowerWord(w) ==
  CASE w \in {"DNS", "Dns", "dNS"} -> "dns"
    [] w \in {"Table", "TABLE"} -> "table"
    [] w \in {"Off", "OFF"} -> "off"
    [] w = "[Interface]" -> "[interface]"
    [] w \in {"App", "APP"} -> "app"
    [] OTHER -> w
ToAsciiLowercase(line) == [i \in DOMAIN line |-> LowerWord(line[i])]

\* str::starts_with
StartsWith(s, prefix) ==
  Len(s) >= Len(prefix) /\ SubSeq(s, 1, Len(prefix)) = prefix

\* str::replace(' ', "")
RemoveSpaces(line) == SelectSeq(line, LAMBDA c : c # " ")

\* IsDnsLine recognising only the form without a space
IsDnsLine_NoSpace(line) == StartsWith(ToAsciiLowercase(Trim(line)), <<"dns", "=">>)

\* the test both extract_dns_servers and sanitize_config apply to a line
IsDnsLine(line) ==
  LET lower == ToAsciiLowercase(Trim(line))
  IN StartsWith(lower, <<"dns", "=">>) \/ StartsWith(lower, <<"dns", " ", "=">>)

\* the part of s after its first '=' (splitn(2, '=')[1])
AfterEquals(s) ==
  LET k == CHOOSE i \in DOMAIN s : s[i] = "=" /\ \A j \in 1..(i - 1) : s[j] # "="
  IN SubSeq(s, k + 1, Len(s))

\* split(|c| c == ',' || c.is_whitespace()).filter(|s| !s.is_empty())
RECURSIVE SplitServers(_, _, _)
SplitServers(s, cur, acc) ==
  LET flush == IF cur = << >> THEN acc ELSE Append(acc, cur) IN
  IF s = << >> THEN flush
  ELSE IF s[1] \in WhiteSpace \cup {","} THEN SplitServers(Tail(s), << >>, flush)
  ELSE SplitServers(Tail(s), Append(cur, s[1]), acc)

RECURSIVE extract_dns_servers(_)
extract_dns_servers(content) ==
  IF content = << >> THEN << >>
  ELSE (IF IsDnsLine(Head(content))
        THEN SplitServers(AfterEquals(Trim(Head(content))), << >>, << >>)
        ELSE << >>) \o extract_dns_servers(Tail(content))

\* has_table that is never true
HasTable_Never(content) == FALSE

\* `content.lines().any(|line| normalized == "table=off")`
HasTable(content) ==
  \E i \in DOMAIN content :
    RemoveSpaces(ToAsciiLowercase(Trim(content[i]))) = <<"table", "=", "off">>

\* the loop of sanitize_config over the lines from position i
RECURSIVE SanitizeLines(_, _, _, _)
SanitizeLines(content, i, inserted, has_table) ==
  IF i > Len(content) THEN << >>
  ELSE IF IsDnsLine(content[i]) THEN SanitizeLines(content, i + 1, inserted, has_table)
  ELSE IF ~inserted /\ Trim(content[i]) = <<"[Interface]">>
       THEN <<content[i]>>
            \o (IF ~has_table THEN << <<"Table", " ", "=", " ", "off">> >> ELSE << >>)
            \o SanitizeLines(content, i + 1, TRUE, has_table)
  ELSE <<content[i]>> \o SanitizeLines(content, i + 1, inserted, has_table)

\* sanitize_config inserting "Table = off" whatever the content holds
sanitize_config_NoTableCheck(content) ==
  [output |-> SanitizeLines(content, 1, FALSE, FALSE),
   dns_servers |-> extract_dns_servers(content)]

\* sanitize_config: the lines written to dest and the DNS servers
sanitize_config(content) ==
  [output |-> SanitizeLines(content, 1, FALSE, HasTable(content)),
   dns_servers |-> extract_dns_servers(content)]

\* ResolvLines without the fallback resolvers
ResolvLines_NoFallback(dns_servers) ==
  [i \in DOMAIN dns_servers |-> <<"nameserver", " ">> \o dns_servers[i]]

\* setup_dns_for_namespace: the lines of the resolver file
ResolvLines(dns_servers) ==
  IF dns_servers = << >>
  THEN << <<"nameserver", " ", "1.1.1.1">>, <<"nameserver", " ", "8.8.8.8">> >>
  ELSE [i \in DOMAIN dns_servers |-> <<"nameserver", " ">> \o dns_servers[i]]


\* ------------------------------------------------------------ the host
\* An optional value: a file that may be absent, a variable that may be unset.
None == << >>
Some(x) == <<x>>

\* The values of /proc/sys/net/ipv4/ip_forward.
FlagValues == {<<"0">>, <<"1">>}

\* The configuration files the user may name, with their lines; <<"m">> does
\* not exist.
ConfigPaths == {<<"a">>, <<"c", Q>>, <<"m">>}
ConfigContent(path) ==
  CASE path = <<"a">> -> Some(<< <<"[Interface]">>, <<"Address", "=", "10.0.0.2/32">>,
                                <<"DNS", "=", "9.9.9.9">>, <<"[Peer]">> >>)
    [] path = <<"c", Q>> -> Some(<< <<"[Interface]">>, <<"Table", "=", "off">> >>)
    [] path = <<"e", BS>> -> Some(<< <<"[Interface]">>, <<"Table", "=", "off">> >>)
    [] path = <<"d">> -> Some(<< <<"[Interface]">>,
                                <<"DNS", "=", "1.1.1.1", ",", " ", "8.8.8.8">>,
                                <<"dns", " ", "=", "9.9.9.9">> >>)
    [] OTHER -> None

\* The host right after boot, with IP-forwarding flag v: no sandbox object,
\* and nothing under /run.
CleanHost(v) ==
  [ ip_forward  |-> v,         \* the IP-forwarding flag
    netns       |-> FALSE,     \* the namespace NS_NAME exists
    veth        |-> "none",    \* "none", "host" (both ends on the host), "ns" (peer moved)
    vethCfg     |-> {},        \* addresses, link state and route set on the pair
    tunnels     |-> {},        \* the WireGuard interfaces that are up
    rules       |-> EmptyBag,  \* iptables rules
    policy      |-> 0,         \* copies of the fwmark policy-routing rule
    routes      |-> {},        \* devices with a default route in table TABLE_ID
    resolv      |-> None,      \* /etc/netns/sillyvpn-ns/resolv.conf
    state_dir   |-> FALSE,     \* STATE_DIR exists
    temp_config |-> None,      \* STATE_DIR/wg-temp.conf
    state       |-> None,      \* STATE_FILE
    spawned     |-> << >> ]    \* the processes run has launched

\* ------------------------------------------------------ external commands
\* An iptables command line split into table, operation, chain and rule.
IptParse(args) ==
  IF args[1] = <<"-t">>
  THEN [table |-> args[2], op |-> args[3], chain |-> args[4],
        rule |-> SubSeq(args, 5, Len(args))]
  ELSE [table |-> <<"filter">>, op |-> args[1], chain |-> args[2],
        rule |-> SubSeq(args, 3, Len(args))]

IptRule(args) == [table |-> IptParse(args).table, chain |-> IptParse(args).chain,
                  rule |-> IptParse(args).rule]

\* The interface wg-quick derives from a configuration file path: the file
\* name without ".conf"; empty when the path does not end in ".conf".
WgInterface(path) ==
  LET name == FileName(path) IN
  IF Len(name) >= 3 /\ SubSeq(name, Len(name) - 1, Len(name)) = <<".", "conf">>
  THEN SubSeq(name, 1, Len(name) - 2) ELSE << >>

DestroyVeth(h) == [h EXCEPT !.veth = "none", !.vethCfg = {}]

\* Can the command do its work on host h?  When it cannot (the object to
\* delete is missing, the one to add exists), it exits non-zero.
Applicable(h, tool, args) ==
  CASE tool = "ip" /\ args = L(<<"link", "del">>) \o <<VETH_HOST>> -> h.veth # "none"
    [] tool = "ip" /\ args = L(<<"netns", "del">>) \o <<NS_NAME>> -> h.netns
    [] tool = "ip" /\ args = L(<<"netns", "add">>) \o <<NS_NAME>> -> ~h.netns
    [] tool = "ip" /\ args = L(<<"link", "add">>) \o <<VETH_HOST>>
                             \o L(<<"type", "veth", "peer", "name">>) \o <<VETH_NS>>
         -> h.veth = "none"
    [] tool = "ip" /\ args = L(<<"link", "set">>) \o <<VETH_NS>> \o L(<<"netns">>) \o <<NS_NAME>>
         -> h.veth = "host" /\ h.netns
    [] tool = "ip" /\ args = L(<<"addr", "add">>) \o <<VETH_HOST_IP>> \o L(<<"dev">>) \o <<VETH_HOST>>
         -> h.veth # "none" /\ "hostAddr" \notin h.vethCfg
    [] tool = "ip" /\ args = L(<<"link", "set">>) \o <<VETH_HOST>> \o L(<<"up">>)
         -> h.veth # "none"
    [] tool = "ip" /\ args = L(<<"netns", "exec">>) \o <<NS_NAME>> \o L(<<"ip", "addr", "add">>)
                             \o <<VETH_NS_IP>> \o L(<<"dev">>) \o <<VETH_NS>>
         -> h.netns /\ h.veth = "ns" /\ "nsAddr" \notin h.vethCfg
    [] tool = "ip" /\ args = L(<<"netns", "exec">>) \o <<NS_NAME>> \o L(<<"ip", "link", "set">>)
                             \o <<VETH_NS>> \o L(<<"up">>)
         -> h.netns /\ h.veth = "ns"
    [] tool = "ip" /\ args = L(<<"netns", "exec">>) \o <<NS_NAME>>
                             \o L(<<"ip", "route", "add", "default", "via", "10.200.0.1">>)
         -> h.netns /\ {"nsAddr", "nsUp"} \subseteq h.vethCfg /\ "nsRoute" \notin h.vethCfg
    [] tool = "wg-quick" /\ Len(args) = 2 /\ args[1] = <<"up">>
         -> h.temp_config # None /\ args[2] = PathJoin(STATE_DIR, <<"wg-temp", ".", "conf">>)
            /\ WgInterface(args[2]) \notin h.tunnels
    [] tool = "wg-quick" /\ Len(args) = 2 /\ args[1] = <<"down">>
         -> h.temp_config # None /\ args[2] = PathJoin(STATE_DIR, <<"wg-temp", ".", "conf">>)
            /\ WgInterface(args[2]) \in h.tunnels
    [] tool = "ip" /\ args = L(<<"rule", "add", "fwmark">>) \o <<FWMARK>> \o L(<<"table">>) \o <<TABLE_ID>>
         -> TRUE
    [] tool = "ip" /\ args = L(<<"rule", "del", "fwmark">>) \o <<FWMARK>> \o L(<<"table">>) \o <<TABLE_ID>>
         -> h.policy > 0
    [] tool = "ip" /\ Len(args) = 7 /\ SubSeq(args, 1, 4) = L(<<"route", "add", "default", "dev">>)
         -> args[5] \in h.tunnels /\ args[5] \notin h.routes
    [] tool = "ip" /\ Len(args) = 7 /\ SubSeq(args, 1, 4) = L(<<"route", "del", "default", "dev">>)
         -> args[5] \in h.routes
    [] tool = "iptables" /\ IptParse(args).op = <<"-A">> -> TRUE
    [] tool = "iptables" /\ IptParse(args).op = <<"-D">> -> BagIn(IptRule(args), h.rules)
    [] OTHER -> FALSE

\* The host after the command has done its work.
Effect(h, tool, args) ==
  CASE tool = "ip" /\ args = L(<<"link", "del">>) \o <<VETH_HOST>> -> DestroyVeth(h)
    [] tool = "ip" /\ args = L(<<"netns", "del">>) \o <<NS_NAME>>
         -> IF h.veth = "ns" THEN [DestroyVeth(h) EXCEPT !.netns = FALSE]
                             ELSE [h EXCEPT !.netns = FALSE]
    [] tool = "ip" /\ args = L(<<"netns", "add">>) \o <<NS_NAME>> -> [h EXCEPT !.netns = TRUE]
    [] tool = "ip" /\ args = L(<<"link", "add">>) \o <<VETH_HOST>>
                             \o L(<<"type", "veth", "peer", "name">>) \o <<VETH_NS>>
         -> [h EXCEPT !.veth = "host"]
    [] tool = "ip" /\ args = L(<<"link", "set">>) \o <<VETH_NS>> \o L(<<"netns">>) \o <<NS_NAME>>
         -> [h EXCEPT !.veth = "ns"]
    [] tool = "ip" /\ args = L(<<"addr", "add">>) \o <<VETH_HOST_IP>> \o L(<<"dev">>) \o <<VETH_HOST>>
         -> [h EXCEPT !.vethCfg = @ \cup {"hostAddr"}]
    [] tool = "ip" /\ args = L(<<"link", "set">>) \o <<VETH_HOST>> \o L(<<"up">>)
         -> [h EXCEPT !.vethCfg = @ \cup {"hostUp"}]
    [] tool = "ip" /\ args = L(<<"netns", "exec">>) \o <<NS_NAME>> \o L(<<"ip", "addr", "add">>)
                             \o <<VETH_NS_IP>> \o L(<<"dev">>) \o <<VETH_NS>>
         -> [h EXCEPT !.vethCfg = @ \cup {"nsAddr"}]
    [] tool = "ip" /\ args = L(<<"netns", "exec">>) \o <<NS_NAME>> \o L(<<"ip", "link", "set">>)
                             \o <<VETH_NS>> \o L(<<"up">>)
         -> [h EXCEPT !.vethCfg = @ \cup {"nsUp"}]
    [] tool = "ip" /\ args = L(<<"netns", "exec">>) \o <<NS_NAME>>
                             \o L(<<"ip", "route", "add", "default", "via", "10.200.0.1">>)
         -> [h EXCEPT !.vethCfg = @ \cup {"nsRoute"}]
    [] tool = "wg-quick" /\ Len(args) = 2 /\ args[1] = <<"up">>
         -> [h EXCEPT !.tunnels = @ \cup {WgInterface(args[2])}]
    [] tool = "wg-quick" /\ Len(args) = 2 /\ args[1] = <<"down">>
         -> [h EXCEPT !.tunnels = @ \ {WgInterface(args[2])},
                      !.routes = @ \ {WgInterface(args[2])}]
    [] tool = "ip" /\ args = L(<<"rule", "add", "fwmark">>) \o <<FWMARK>> \o L(<<"table">>) \o <<TABLE_ID>>
         -> [h EXCEPT !.policy = @ + 1]
    [] tool = "ip" /\ args = L(<<"rule", "del", "fwmark">>) \o <<FWMARK>> \o L(<<"table">>) \o <<TABLE_ID>>
         -> [h EXCEPT !.policy = @ - 1]
    [] tool = "ip" /\ Len(args) = 7 /\ SubSeq(args, 1, 4) = L(<<"route", "add", "default", "dev">>)
         -> [h EXCEPT !.routes = @ \cup {args[5]}]
    [] tool = "ip" /\ Len(args) = 7 /\ SubSeq(args, 1, 4) = L(<<"route", "del", "default", "dev">>)
         -> [h EXCEPT !.routes = @ \ {args[5]}]
    [] tool = "iptables" /\ IptParse(args).op = <<"-A">>
         -> [h EXCEPT !.rules = @ (+) SetToBag({IptRule(args)})]
    [] tool = "iptables" /\ IptParse(args).op = <<"-D">>
         -> [h EXCEPT !.rules = @ (-) SetToBag({IptRule(args)})]
    [] OTHER -> h

\* Results: Ok(()), or Err(text) with the parts of the text.
Ok == [kind |-> "ok", tool |-> "", diag |-> << >>]
Err(tool, kind, diag) == [kind |-> kind, tool |-> tool, diag |-> diag]
IsOk(r) == r.kind = "ok"

\* One step of the helper: an external command (tool, arguments) or one of
\* its file operations.
Cmd(tool, args) == [tool |-> tool, args |-> args]
Outcome(res, fault, h) == [res |-> res, fault |-> fault, host |-> h]

\* run_cmd: what running the command on host h can give.
\*   it does its work and exits 0                 Ok(())
\*   it exits non-zero and changes nothing        Err("<tool> error: <stderr>")
\*   it cannot be started                         Err("<tool> failed to start: ...")
\* diag stands for the captured text, which tells the failing command.
\* fault marks a failure of a command that could have done its work.
run_cmd(h, tool, args) ==
  IF Applicable(h, tool, args)
  THEN {Outcome(Ok, FALSE, Effect(h, tool, args)),
        Outcome(Err(tool, "error", args), TRUE, h),
        Outcome(Err(tool, "failed to start", args), TRUE, h)}
  ELSE {Outcome(Err(tool, "error", args), FALSE, h)}

IoErr(op) == Err("io", "error", <<op>>)

write_ip_forward(h, value) ==
  IF value \in FlagValues
  THEN {Outcome(Ok, FALSE, [h EXCEPT !.ip_forward = value]),
        Outcome(IoErr(<<"write_ip_forward">>), TRUE, h)}
  ELSE {Outcome(IoErr(<<"write_ip_forward">>), FALSE, h)}

\* fs::write leaves an empty file when it fails after creating it
write_state(h, st) ==
  {Outcome(Ok, FALSE, [h EXCEPT !.state = Some(FormatState(st))]),
   Outcome(IoErr(<<"write_state">>), TRUE, h),
   Outcome(IoErr(<<"write_state">>), TRUE, [h EXCEPT !.state = Some(<< >>)])}

setup_dns_for_namespace(h, dns_servers) ==
  {Outcome(Ok, FALSE, [h EXCEPT !.resolv = Some(ResolvLines(dns_servers))]),
   Outcome(IoErr(<<"setup_dns_for_namespace">>), TRUE, h),
   Outcome(IoErr(<<"setup_dns_for_namespace">>), TRUE, [h EXCEPT !.resolv = Some(<< >>)])}

\* both removals are ignored: the result is Ok(()) whatever happens
cleanup_dns_for_namespace(h) ==
  IF h.resolv = None THEN {Outcome(Ok, FALSE, h)}
  ELSE {Outcome(Ok, FALSE, [h EXCEPT !.resolv = None]), Outcome(Ok, TRUE, h)}

\* fs::remove_file(STATE_FILE)
remove_state_file(h) ==
  IF h.state = None THEN {Outcome(IoErr(<<"remove_file">>), FALSE, h)}
  ELSE {Outcome(Ok, FALSE, [h EXCEPT !.state = None]),
        Outcome(IoErr(<<"remove_file">>), TRUE, h)}

\* The outcomes of one step.
Perform(h, step) ==
  CASE step.tool = "write_ip_forward" -> write_ip_forward(h, step.args[1])
    [] step.tool = "write_state" ->
         write_state(h, [wg_ifname |-> step.args[1], config_path |-> step.args[2],
                         temp_config |-> step.args[3], ip_forward_prev |-> step.args[4]])
    [] step.tool = "setup_dns_for_namespace" -> setup_dns_for_namespace(h, step.args)
    [] step.tool = "cleanup_dns_for_namespace" -> cleanup_dns_for_namespace(h)
    [] step.tool = "remove_file" -> remove_state_file(h)
    [] OTHER -> run_cmd(h, step.tool, step.args)


\* ------------------------------------------------------- the step lists
TempConfigPath == PathJoin(STATE_DIR, <<"wg-temp", ".", "conf">>)

\* cleanup_best_effort that also switches IP forwarding off
cleanup_best_effort_ResetsFlag ==
  << Cmd("ip", L(<<"link", "del">>) \o <<VETH_HOST>>),
     Cmd("ip", L(<<"netns", "del">>) \o <<NS_NAME>>),
     Cmd("cleanup_dns_for_namespace", << >>),
     Cmd("write_ip_forward", <<<<"0">>>>) >>

\* cleanup_best_effort
cleanup_best_effort ==
  << Cmd("ip", L(<<"link", "del">>) \o <<VETH_HOST>>),
     Cmd("ip", L(<<"netns", "del">>) \o <<NS_NAME>>),
     Cmd("cleanup_dns_for_namespace", << >>) >>

\* enable: the best-effort removal of a stale link and namespace
EnablePreclean ==
  << Cmd("ip", L(<<"link", "del">>) \o <<VETH_HOST>>),
     Cmd("ip", L(<<"netns", "del">>) \o <<NS_NAME>>) >>

\* EnableBody with the table route installed before the policy-routing rule
EnableBody_RouteFirst(l) ==
  << Cmd("ip", L(<<"netns", "add">>) \o <<NS_NAME>>),
     Cmd("setup_dns_for_namespace", l.dns_servers),
     Cmd("ip", L(<<"link", "add">>) \o <<VETH_HOST>>
               \o L(<<"type", "veth", "peer", "name">>) \o <<VETH_NS>>),
     Cmd("ip", L(<<"link", "set">>) \o <<VETH_NS>> \o L(<<"netns">>) \o <<NS_NAME>>),
     Cmd("ip", L(<<"addr", "add">>) \o <<VETH_HOST_IP>> \o L(<<"dev">>) \o <<VETH_HOST>>),
     Cmd("ip", L(<<"link", "set">>) \o <<VETH_HOST>> \o L(<<"up">>)),
     Cmd("ip", L(<<"netns", "exec">>) \o <<NS_NAME>> \o L(<<"ip", "addr", "add">>)
               \o <<VETH_NS_IP>> \o L(<<"dev">>) \o <<VETH_NS>>),
     Cmd("ip", L(<<"netns", "exec">>) \o <<NS_NAME>> \o L(<<"ip", "link", "set">>)
               \o <<VETH_NS>> \o L(<<"up">>)),
     Cmd("ip", L(<<"netns", "exec">>) \o <<NS_NAME>>
               \o L(<<"ip", "route", "add", "default", "via", "10.200.0.1">>)),
     Cmd("wg-quick", L(<<"up">>) \o <<l.temp_config>>),
     Cmd("ip", L(<<"route", "add", "default", "dev">>) \o <<l.ifname>>
               \o L(<<"table">>) \o <<TABLE_ID>>),
     Cmd("ip", L(<<"rule", "add", "fwmark">>) \o <<FWMARK>> \o L(<<"table">>) \o <<TABLE_ID>>),
     Cmd("iptables", L(<<"-t", "mangle", "-A", "PREROUTING", "-i">>) \o <<VETH_HOST>>
                     \o L(<<"-j", "MARK", "--set-mark">>) \o <<FWMARK>>),
     Cmd("iptables", L(<<"-A", "FORWARD", "-i">>) \o <<VETH_HOST>> \o L(<<"-o">>)
                     \o <<l.ifname>> \o L(<<"-j", "ACCEPT">>)),
     Cmd("iptables", L(<<"-A", "FORWARD", "-i">>) \o <<l.ifname>> \o L(<<"-o">>)
                     \o <<VETH_HOST>> \o L(<<"-j", "ACCEPT">>)),
     Cmd("iptables", L(<<"-t", "nat", "-A", "POSTROUTING", "-s">>) \o <<VETH_SUBNET>>
                     \o L(<<"-o">>) \o <<l.ifname>> \o L(<<"-j", "MASQUERADE">>)),
     Cmd("write_state", <<l.ifname, l.config_path, l.temp_config, l.ip_forward_prev>>) >>

\* enable: the closure whose first failing step ends it
EnableBody(l) ==
  << Cmd("ip", L(<<"netns", "add">>) \o <<NS_NAME>>),
     Cmd("setup_dns_for_namespace", l.dns_servers),
     Cmd("ip", L(<<"link", "add">>) \o <<VETH_HOST>>
               \o L(<<"type", "veth", "peer", "name">>) \o <<VETH_NS>>),
     Cmd("ip", L(<<"link", "set">>) \o <<VETH_NS>> \o L(<<"netns">>) \o <<NS_NAME>>),
     Cmd("ip", L(<<"addr", "add">>) \o <<VETH_HOST_IP>> \o L(<<"dev">>) \o <<VETH_HOST>>),
     Cmd("ip", L(<<"link", "set">>) \o <<VETH_HOST>> \o L(<<"up">>)),
     Cmd("ip", L(<<"netns", "exec">>) \o <<NS_NAME>> \o L(<<"ip", "addr", "add">>)
               \o <<VETH_NS_IP>> \o L(<<"dev">>) \o <<VETH_NS>>),
     Cmd("ip", L(<<"netns", "exec">>) \o <<NS_NAME>> \o L(<<"ip", "link", "set">>)
               \o <<VETH_NS>> \o L(<<"up">>)),
     Cmd("ip", L(<<"netns", "exec">>) \o <<NS_NAME>>
               \o L(<<"ip", "route", "add", "default", "via", "10.200.0.1">>)),
     Cmd("wg-quick", L(<<"up">>) \o <<l.temp_config>>),
     Cmd("ip", L(<<"rule", "add", "fwmark">>) \o <<FWMARK>> \o L(<<"table">>) \o <<TABLE_ID>>),
     Cmd("ip", L(<<"route", "add", "default", "dev">>) \o <<l.ifname>>
               \o L(<<"table">>) \o <<TABLE_ID>>),
     Cmd("iptables", L(<<"-t", "mangle", "-A", "PREROUTING", "-i">>) \o <<VETH_HOST>>
                     \o L(<<"-j", "MARK", "--set-mark">>) \o <<FWMARK>>),
     Cmd("iptables", L(<<"-A", "FORWARD", "-i">>) \o <<VETH_HOST>> \o L(<<"-o">>)
                     \o <<l.ifname>> \o L(<<"-j", "ACCEPT">>)),
     Cmd("iptables", L(<<"-A", "FORWARD", "-i">>) \o <<l.ifname>> \o L(<<"-o">>)
                     \o <<VETH_HOST>> \o L(<<"-j", "ACCEPT">>)),
     Cmd("iptables", L(<<"-t", "nat", "-A", "POSTROUTING", "-s">>) \o <<VETH_SUBNET>>
                     \o L(<<"-o">>) \o <<l.ifname>> \o L(<<"-j", "MASQUERADE">>)),
     Cmd("write_state", <<l.ifname, l.config_path, l.temp_config, l.ip_forward_prev>>) >>

\* EnableRollback without the restoration of the forwarding flag
EnableRollback_NoRestore(l) ==
  cleanup_best_effort \o
  << Cmd("cleanup_dns_for_namespace", << >>),
     Cmd("iptables", L(<<"-D", "FORWARD", "-i">>) \o <<VETH_HOST>> \o L(<<"-o">>)
                     \o <<l.ifname>> \o L(<<"-j", "ACCEPT">>)),
     Cmd("iptables", L(<<"-D", "FORWARD", "-i">>) \o <<l.ifname>> \o L(<<"-o">>)
                     \o <<VETH_HOST>> \o L(<<"-j", "ACCEPT">>)),
     Cmd("iptables", L(<<"-t", "nat", "-D", "POSTROUTING", "-s">>) \o <<VETH_SUBNET>>
                     \o L(<<"-o">>) \o <<l.ifname>> \o L(<<"-j", "MASQUERADE">>)),
     Cmd("wg-quick", L(<<"down">>) \o <<l.temp_config>>) >>

\* enable: what runs when the closure returned an error
EnableRollback(l) ==
  cleanup_best_effort \o
  << Cmd("cleanup_dns_for_namespace", << >>),
     Cmd("write_ip_forward", <<l.ip_forward_prev>>),
     Cmd("iptables", L(<<"-D", "FORWARD", "-i">>) \o <<VETH_HOST>> \o L(<<"-o">>)
                     \o <<l.ifname>> \o L(<<"-j", "ACCEPT">>)),
     Cmd("iptables", L(<<"-D", "FORWARD", "-i">>) \o <<l.ifname>> \o L(<<"-o">>)
                     \o <<VETH_HOST>> \o L(<<"-j", "ACCEPT">>)),
     Cmd("iptables", L(<<"-t", "nat", "-D", "POSTROUTING", "-s">>) \o <<VETH_SUBNET>>
                     \o L(<<"-o">>) \o <<l.ifname>> \o L(<<"-j", "MASQUERADE">>)),
     Cmd("wg-quick", L(<<"down">>) \o <<l.temp_config>>) >>

\* DisableRemovals without the removal of the policy-routing rule
DisableRemovals_NoRuleDel(st) ==
  << Cmd("iptables", L(<<"-t", "mangle", "-D", "PREROUTING", "-i">>) \o <<VETH_HOST>>
                     \o L(<<"-j", "MARK", "--set-mark">>) \o <<FWMARK>>),
     Cmd("iptables", L(<<"-D", "FORWARD", "-i">>) \o <<VETH_HOST>> \o L(<<"-o">>)
                     \o <<st.wg_ifname>> \o L(<<"-j", "ACCEPT">>)),
     Cmd("iptables", L(<<"-D", "FORWARD", "-i">>) \o <<st.wg_ifname>> \o L(<<"-o">>)
                     \o <<VETH_HOST>> \o L(<<"-j", "ACCEPT">>)),
     Cmd("iptables", L(<<"-t", "nat", "-D", "POSTROUTING", "-s">>) \o <<VETH_SUBNET>>
                     \o L(<<"-o">>) \o <<st.wg_ifname>> \o L(<<"-j", "MASQUERADE">>)),
     Cmd("ip", L(<<"route", "del", "default", "dev">>) \o <<st.wg_ifname>>
               \o L(<<"table">>) \o <<TABLE_ID>>),
     Cmd("wg-quick", L(<<"down">>) \o <<st.temp_config>>) >>
  \o cleanup_best_effort

\* disable with a session: the removals, each result ignored
DisableRemovals(st) ==
  << Cmd("iptables", L(<<"-t", "mangle", "-D", "PREROUTING", "-i">>) \o <<VETH_HOST>>
                     \o L(<<"-j", "MARK", "--set-mark">>) \o <<FWMARK>>),
     Cmd("iptables", L(<<"-D", "FORWARD", "-i">>) \o <<VETH_HOST>> \o L(<<"-o">>)
                     \o <<st.wg_ifname>> \o L(<<"-j", "ACCEPT">>)),
     Cmd("iptables", L(<<"-D", "FORWARD", "-i">>) \o <<st.wg_ifname>> \o L(<<"-o">>)
                     \o <<VETH_HOST>> \o L(<<"-j", "ACCEPT">>)),
     Cmd("iptables", L(<<"-t", "nat", "-D", "POSTROUTING", "-s">>) \o <<VETH_SUBNET>>
                     \o L(<<"-o">>) \o <<st.wg_ifname>> \o L(<<"-j", "MASQUERADE">>)),
     Cmd("ip", L(<<"rule", "del", "fwmark">>) \o <<FWMARK>> \o L(<<"table">>) \o <<TABLE_ID>>),
     Cmd("ip", L(<<"route", "del", "default", "dev">>) \o <<st.wg_ifname>>
               \o L(<<"table">>) \o <<TABLE_ID>>),
     Cmd("wg-quick", L(<<"down">>) \o <<st.temp_config>>) >>
  \o cleanup_best_effort


\* ------------------------------------------------------------- launcher
AllowedEnvKeys ==
  { <<"DISPLAY">>, <<"WAYLAND_DISPLAY">>, <<"XAUTHORITY">>, <<"XDG_RUNTIME_DIR">>,
    <<"DBUS_SESSION_BUS_ADDRESS">>, <<"HOME">>, <<"USER">>, <<"LOGNAME">>, <<"PATH">> }

allowed_env_key(key) == key \in AllowedEnvKeys

\* parse_env_pair: Err for an empty key, None for a key that is not allowed,
\* Some(<<key, value>>) otherwise
parse_env_pair(pair) ==
  LET k == IF \E i \in DOMAIN pair : pair[i] = "="
           THEN CHOOSE i \in DOMAIN pair : pair[i] = "=" /\ \A j \in 1..(i - 1) : pair[j] # "="
           ELSE Len(pair) + 1
      key == Trim(SubSeq(pair, 1, k - 1))
      value == SubSeq(pair, k + 1, Len(pair))
  IN IF key = << >> THEN [res |-> Err("", "empty env key", << >>), val |-> None]
     ELSE IF ~allowed_env_key(key) THEN [res |-> Ok, val |-> None]
     ELSE [res |-> Ok, val |-> Some(<<key, value>>)]

\* run: the --env arguments in order: the pairs kept, or the first error
RECURSIVE ParseEnvs(_, _)
ParseEnvs(pairs, acc) ==
  IF pairs = << >> THEN [res |-> Ok, val |-> acc]
  ELSE LET p == parse_env_pair(Head(pairs)) IN
       IF ~IsOk(p.res) THEN [res |-> p.res, val |-> << >>]
       ELSE ParseEnvs(Tail(pairs), acc \o p.val)

\* The binaries the user may launch; only <<"app">> exists.
BinExists(bin) == bin = <<"app">>

\* The value of an environment (a sequence of <<key, value>>, later entries
\* overriding earlier ones) at key: None or Some(value)
EnvGet(env, key) ==
  IF \E i \in DOMAIN env : env[i][1] = key
  THEN Some(env[CHOOSE i \in DOMAIN env : env[i][1] = key
                  /\ \A j \in DOMAIN env : env[j][1] = key => j <= i][2])
  ELSE None

\* gid_for_uid: the fourth field of the first passwd line whose third is uid
gid_for_uid(passwd, uid) ==
  IF passwd = None THEN None
  ELSE LET lines == passwd[1]
           hit(i) == Len(lines[i]) >= 4 /\ lines[i][3] = uid
       IN IF \E i \in DOMAIN lines : hit(i)
          THEN Some(lines[CHOOSE i \in DOMAIN lines : hit(i)
                            /\ \A j \in 1..(i - 1) : ~hit(j)][4])
          ELSE None

\* caller_identity: the uid pkexec recorded, and its group
caller_identity(w) ==
  LET uid == EnvGet(w.env, <<"PKEXEC_UID">>) IN
  IF uid = None THEN None
  ELSE LET gid == gid_for_uid(w.passwd, uid[1])
       IN Some(<<uid[1], IF gid = None THEN uid[1] ELSE gid[1]>>)

\* find_setpriv looking in /usr/bin only
find_setpriv_UsrOnly(w) ==
  IF <<"/usr/bin/setpriv">> \in w.tools THEN Some(<<"/usr/bin/setpriv">>) ELSE None

find_setpriv(w) ==
  IF <<"/usr/bin/setpriv">> \in w.tools THEN Some(<<"/usr/bin/setpriv">>)
  ELSE IF <<"/bin/setpriv">> \in w.tools THEN Some(<<"/bin/setpriv">>)
  ELSE None

find_setsid(w) ==
  IF <<"/usr/bin/setsid">> \in w.tools THEN <<<<"/usr/bin/setsid">>, TRUE>>
  ELSE IF <<"/bin/setsid">> \in w.tools THEN <<<<"/bin/setsid">>, TRUE>>
  ELSE <<<<"/usr/bin/ip">>, FALSE>>

\* run_in_namespace: the command line it builds for bin
LaunchArgv(w, bin) ==
  LET ss == find_setsid(w)
      id == caller_identity(w)
      sp == find_setpriv(w)
  IN (IF ss[2] THEN <<ss[1], <<"/usr/bin/ip">>>> ELSE << <<"/usr/bin/ip">> >>)
     \o L(<<"netns", "exec">>) \o <<NS_NAME>>
     \o (IF id # None /\ sp # None
         THEN <<sp[1]>> \o L(<<"--reuid">>) \o <<id[1][1]>> \o L(<<"--regid">>) \o <<id[1][2]>>
              \o L(<<"--init-groups", "--inh-caps", "-all">>)
         ELSE << >>)
     \o <<bin>>

\* run_in_namespace(bin, envs) on host h in surroundings w: the child gets
\* the helper's own environment with envs set on top of it
run_in_namespace(h, w, bin, envs) ==
  IF ~BinExists(bin) THEN {Outcome(Err("", "binary does not exist", << >>), FALSE, h)}
  ELSE {Outcome(Ok, FALSE,
                [h EXCEPT !.spawned = Append(@, [argv |-> LaunchArgv(w, bin),
                                                 env |-> w.env \o envs])]),
        Outcome(IoErr(<<"spawn">>), TRUE, h)}


\* ------------------------------------------------------ the helper process
VARIABLES
  host,     \* the kernel objects and files of the machine
  pc,       \* where the running helper invocation is: [at, i]
  loc,      \* its local variables
  ret,      \* the result of the last invocation that returned
  inv,      \* the last invocation started: what it was and how it went
  issued,   \* the steps it has executed, in order, with their outcome
  past,     \* one summary per invocation that ended, in order
  runs,     \* invocations that ended
  faults,   \* failures injected so far
  mode,     \* what a behaviour explores: "lifecycle", "crash", "single", ..
  procs,    \* the process table: what runs under each pid
  sent,     \* the signals sent, in order, with the process each one reached
  churn     \* processes that exited on their own or started, so far

vars == <<host, pc, loc, ret, inv, issued, past, runs, faults, mode, procs, sent, churn>>

At(a, i) == [at |-> a, i |-> i]
Idle == At("idle", 0)

NoLoc ==
  [ config_path |-> << >>, temp_config |-> << >>, ifname |-> << >>,
    dns_servers |-> << >>, ip_forward_prev |-> << >>, result |-> Ok,
    ifname_arg |-> << >>,
    state |-> [ok |-> FALSE], bins |-> << >>, envs |-> << >>,
    world |-> [tools |-> {}, env |-> << >>, passwd |-> None] ]

NoRet == [kind |-> "none", tool |-> "", diag |-> << >>]
Crashed == [kind |-> "crashed", tool |-> "", diag |-> << >>]

\* What is remembered of an invocation: the operation and its argument,
\* the host it started on, the step of enable's body that failed (0: none),
\* whether a rollback or cleanup step failed although it could have worked,
\* whether disable loaded a session, and where a killed invocation was.
NewInv(op, arg) ==
  [ op |-> op, arg |-> arg, pre |-> host, failStep |-> 0, cleanFault |-> FALSE,
    session |-> FALSE, diedAt |-> Idle, ifname |-> << >>, world |-> NoLoc.world ]
Summary(i, r) ==
  [ op |-> i.op, arg |-> i.arg,
    ret |-> IF r.kind \in {"ok", "crashed"} THEN r.kind ELSE "err",
    flag0 |-> i.pre.ip_forward, afterNs |-> i.failStep > 1,
    cleanFault |-> i.cleanFault, session |-> i.session, diedIn |-> i.diedAt.at ]

\* The state before the first invocation, on host h.
Start(h, m) ==
  /\ host = h
  /\ mode = m
  /\ pc = Idle
  /\ loc = NoLoc
  /\ ret = NoRet
  /\ inv = [NewInv("none", << >>) EXCEPT !.pre = CleanHost(<<"0">>)]
  /\ issued = << >>
  /\ past = << >>
  /\ runs = 0
  /\ faults = 0
  /\ procs = << >>
  /\ sent = << >>
  /\ churn = 0

\* Sequences of invocations on a freshly booted host, with few failures.
Init == \E v \in FlagValues : Start(CleanHost(v), "lifecycle")

\* The invocation returns r (i: what is remembered of it).
Finish(r, i) ==
  /\ pc' = Idle
  /\ ret' = r
  /\ loc' = NoLoc
  /\ past' = Append(past, Summary(i, r))
  /\ runs' = runs + 1
  /\ UNCHANGED <<mode, procs, sent, churn>>

Continue(p, l) ==
  /\ pc' = p
  /\ loc' = l
  /\ UNCHANGED <<ret, past, runs, mode, procs, sent, churn>>

\* Outcome o may happen: "lifecycle" behaviours inject at most MaxFaults
\* failures, "sequence" behaviours at most MaxSeqFaults, "crash" behaviours
\* none, "single" behaviours any number.
Allowed(o) ==
  o.fault => CASE mode = "lifecycle" -> faults < MaxFaults
               [] mode = "sequence" -> faults < MaxSeqFaults
               [] mode = "crash" -> FALSE
               [] OTHER -> TRUE
Charge(o) == faults' = faults + (IF o.fault THEN 1 ELSE 0)
Log(phase, step, o) ==
  issued' = Append(issued, [phase |-> phase, step |-> step, ok |-> IsOk(o.res)])

\* A "single" behaviour is one invocation, a "sequence" has up to MaxSeq.
CanStart ==
  pc = Idle /\ runs < (CASE mode = "single" -> 1
                         [] mode = "sequence" -> MaxSeq
                         [] OTHER -> MaxRuns)

\* ----------------------------------------------------------------- enable
\* ConfigExists without the check
ConfigExists_Unchecked(config_path) == TRUE

ConfigExists(config_path) == ConfigContent(config_path) # None

\* enable: `if !config_path.exists() { return Err(..) }`
enable_check(config_path, ifname_arg) ==
  /\ CanStart
  /\ inv' = [NewInv("enable", config_path) EXCEPT !.ifname = ifname_arg]
  /\ issued' = << >>
  /\ IF ConfigExists(config_path)
     THEN Continue(At("sanitize", 0), [NoLoc EXCEPT !.config_path = config_path,
                                                    !.ifname_arg = ifname_arg])
     ELSE Finish(Err("", "config does not exist", << >>), inv')
  /\ UNCHANGED <<host, faults>>

\* `let ifname = temp_config.file_stem()...`: the parameter _ifname is unused
DeriveIfname(temp_config, ifname_arg) == FileStem(temp_config)

\* create_dir_all(STATE_DIR) and sanitize_config(config_path, temp_config)
SanitizeOutcomes(h, config_path) ==
  LET content == ConfigContent(config_path)
      dir == [h EXCEPT !.state_dir = TRUE]
      old == IF h.temp_config = None THEN "default" ELSE h.temp_config[1].mode
      written(m) == [dir EXCEPT !.temp_config =
                       Some([lines |-> sanitize_config(content[1]).output, mode |-> m])]
  IN {Outcome(IoErr(<<"create_dir_all">>), TRUE, h)}
     \cup (IF content = None
           THEN {Outcome(IoErr(<<"open">>), FALSE, dir)}
           ELSE {Outcome(IoErr(<<"open">>), TRUE, dir),
                 Outcome(IoErr(<<"set_permissions">>), TRUE, written(old)),
                 Outcome(Ok, FALSE, written("0600"))})

enable_sanitize ==
  /\ pc.at = "sanitize"
  /\ \E o \in SanitizeOutcomes(host, loc.config_path) :
       /\ Allowed(o) /\ Charge(o)
       /\ host' = o.host
       /\ IF IsOk(o.res)
          THEN Continue(At("read_ip_forward", 0),
                 [loc EXCEPT !.temp_config = TempConfigPath,
                             !.dns_servers = sanitize_config(ConfigContent(loc.config_path)[1]).dns_servers,
                             !.ifname = DeriveIfname(TempConfigPath, loc.ifname_arg)])
          ELSE Finish(o.res, inv)
  /\ UNCHANGED <<inv, issued>>

\* read_ip_forward: the trimmed content of the flag file
read_ip_forward(h) ==
  {[res |-> Ok, fault |-> FALSE, host |-> h, val |-> h.ip_forward],
   [res |-> IoErr(<<"read_ip_forward">>), fault |-> TRUE, host |-> h, val |-> << >>]}

enable_read_ip_forward ==
  /\ pc.at = "read_ip_forward"
  /\ \E o \in read_ip_forward(host) :
       /\ Allowed(o) /\ Charge(o)
       /\ IF IsOk(o.res)
          THEN Continue(At("write_ip_forward", 0), [loc EXCEPT !.ip_forward_prev = o.val])
          ELSE Finish(o.res, inv)
  /\ UNCHANGED <<host, inv, issued>>

\* write_ip_forward("1")?
enable_write_ip_forward ==
  /\ pc.at = "write_ip_forward"
  /\ LET step == Cmd("write_ip_forward", <<<<"1">>>>) IN
     \E o \in Perform(host, step) :
       /\ Allowed(o) /\ Charge(o) /\ Log(pc.at, step, o)
       /\ host' = o.host
       /\ IF IsOk(o.res)
          THEN Continue(At("preclean", 1), loc)
          ELSE Finish(o.res, inv)
  /\ UNCHANGED <<inv>>

\* let _ = run_cmd(..) twice
enable_preclean ==
  /\ pc.at = "preclean"
  /\ LET step == EnablePreclean[pc.i] IN
     \E o \in Perform(host, step) :
       /\ Allowed(o) /\ Charge(o) /\ Log(pc.at, step, o)
       /\ host' = o.host
       /\ Continue(IF pc.i < Len(EnablePreclean) THEN At("preclean", pc.i + 1)
                   ELSE At("body", 1), loc)
  /\ UNCHANGED <<inv>>

\* one step of the closure: `?` ends it at the first error
enable_body ==
  /\ pc.at = "body"
  /\ LET step == EnableBody(loc)[pc.i] IN
     \E o \in Perform(host, step) :
       /\ Allowed(o) /\ Charge(o) /\ Log(pc.at, step, o)
       /\ host' = o.host
       /\ IF IsOk(o.res)
          THEN IF pc.i < Len(EnableBody(loc))
               THEN Continue(At("body", pc.i + 1), loc) /\ inv' = inv
               ELSE Finish(Ok, inv) /\ inv' = inv
          ELSE /\ Continue(At("rollback", 1), [loc EXCEPT !.result = o.res])
               /\ inv' = [inv EXCEPT !.failStep = pc.i]

\* Swallow letting the error of the dropped result through
Swallow_Propagate(kept, dropped) == IF IsOk(dropped) THEN kept ELSE dropped

\* `let _ = f();`: the result of f is dropped, the error in hand is kept
Swallow(kept, dropped) == kept

\* one step of `if let Err(err) = result { .. return Err(err) }`
enable_rollback ==
  /\ pc.at = "rollback"
  /\ LET step == EnableRollback(loc)[pc.i] IN
     \E o \in Perform(host, step) :
       /\ Allowed(o) /\ Charge(o) /\ Log(pc.at, step, o)
       /\ host' = o.host
       /\ inv' = [inv EXCEPT !.cleanFault = @ \/ o.fault]
       /\ LET l == [loc EXCEPT !.result = Swallow(loc.result, o.res)] IN
          IF pc.i < Len(EnableRollback(loc))
          THEN Continue(At("rollback", pc.i + 1), l)
          ELSE Finish(l.result, inv')

\* The first invocation, an enable, is killed between setting the flag and
\* returning; the invocations that follow are the recovery.
crash ==
  /\ pc.at \in {"preclean", "body", "rollback"}
  /\ past = << >>
  /\ inv' = [inv EXCEPT !.diedAt = pc]
  /\ pc' = Idle
  /\ ret' = Crashed
  /\ loc' = NoLoc
  /\ past' = Append(past, Summary(inv', Crashed))
  /\ UNCHANGED <<host, issued, runs, faults, mode, procs, sent, churn>>

\* ---------------------------------------------------------------- disable
\* read_state: open, read and parse the state file
read_state(h) ==
  IF h.state = None
  THEN {[res |-> IoErr(<<"open">>), fault |-> FALSE, host |-> h, val |-> [ok |-> FALSE]]}
  ELSE {LET st == ParseState(h.state[1]) IN
        [res |-> IF st.ok THEN Ok ELSE Err("serde_json", "error", << >>),
         fault |-> FALSE, host |-> h, val |-> st]}

\* `let state = match read_state() { Ok(state) => state, Err(_) => .. }`
disable_read_state ==
  /\ CanStart
  /\ issued' = << >>
  /\ \E o \in read_state(host) :
       /\ Allowed(o) /\ Charge(o)
       /\ inv' = [NewInv("disable", << >>) EXCEPT !.session = IsOk(o.res)]
       /\ IF IsOk(o.res)
          THEN Continue(At("remove", 1), [NoLoc EXCEPT !.state = o.val])
          ELSE Continue(At("no_session", 1), NoLoc)
  /\ UNCHANGED <<host>>

\* Err(_) => { cleanup_best_effort(); return Ok(()) }
disable_no_session ==
  /\ pc.at = "no_session"
  /\ LET step == cleanup_best_effort[pc.i] IN
     \E o \in Perform(host, step) :
       /\ Allowed(o) /\ Charge(o) /\ Log(pc.at, step, o)
       /\ host' = o.host
       /\ inv' = [inv EXCEPT !.cleanFault = @ \/ o.fault]
       /\ IF pc.i < Len(cleanup_best_effort)
          THEN Continue(At("no_session", pc.i + 1), loc)
          ELSE Finish(Ok, inv')

\* the removals and cleanup_best_effort, every result ignored
disable_remove ==
  /\ pc.at = "remove"
  /\ LET step == DisableRemovals(loc.state)[pc.i] IN
     \E o \in Perform(host, step) :
       /\ Allowed(o) /\ Charge(o) /\ Log(pc.at, step, o)
       /\ host' = o.host
       /\ inv' = [inv EXCEPT !.cleanFault = @ \/ o.fault]
       /\ Continue(IF pc.i < Len(DisableRemovals(loc.state)) THEN At("remove", pc.i + 1)
                   ELSE At("restore", 0), loc)

\* disable_write_ip_forward with the result of the write ignored
disable_write_ip_forward_Ignored ==
  /\ pc.at = "restore"
  /\ LET step == Cmd("write_ip_forward", <<loc.state.ip_forward_prev>>) IN
     \E o \in Perform(host, step) :
       /\ Allowed(o) /\ Charge(o) /\ Log(pc.at, step, o)
       /\ host' = o.host
       /\ Continue(At("remove_state", 0), loc)
  /\ UNCHANGED <<inv>>

\* write_ip_forward(&state.ip_forward_prev)?
disable_write_ip_forward ==
  /\ pc.at = "restore"
  /\ LET step == Cmd("write_ip_forward", <<loc.state.ip_forward_prev>>) IN
     \E o \in Perform(host, step) :
       /\ Allowed(o) /\ Charge(o) /\ Log(pc.at, step, o)
       /\ host' = o.host
       /\ IF IsOk(o.res)
          THEN Continue(At("remove_state", 0), loc)
          ELSE Finish(o.res, inv)
  /\ UNCHANGED <<inv>>

\* let _ = fs::remove_file(STATE_FILE); Ok(())
disable_remove_state ==
  /\ pc.at = "remove_state"
  /\ LET step == Cmd("remove_file", << >>) IN
     \E o \in Perform(host, step) :
       /\ Allowed(o) /\ Charge(o) /\ Log(pc.at, step, o)
       /\ host' = o.host
       /\ inv' = [inv EXCEPT !.cleanFault = @ \/ o.fault]
       /\ Finish(Ok, inv')

\* -------------------------------------------------------------------- run
\* run: the arguments are parsed, then each binary is launched in turn
run_args(bins, pairs, w) ==
  /\ CanStart
  /\ inv' = [NewInv("run", bins) EXCEPT !.world = w]
  /\ issued' = << >>
  /\ LET e == ParseEnvs(pairs, << >>) IN
     IF ~IsOk(e.res) THEN Finish(e.res, inv')
     ELSE IF bins = << >> THEN Finish(Err("", "--bin missing", << >>), inv')
     ELSE Continue(At("run", 1), [NoLoc EXCEPT !.bins = bins, !.envs = e.val, !.world = w])
  /\ UNCHANGED <<host, faults>>

\* `for bin in bins { run_in_namespace(Path::new(&bin), &envs)?; }`
run_bin ==
  /\ pc.at = "run"
  /\ LET step == Cmd("run_in_namespace", <<loc.bins[pc.i]>>) IN
     \E o \in run_in_namespace(host, loc.world, loc.bins[pc.i], loc.envs) :
       /\ Allowed(o) /\ Charge(o) /\ Log(pc.at, step, o)
       /\ host' = o.host
       /\ IF ~IsOk(o.res) THEN Finish(o.res, inv)
          ELSE IF pc.i < Len(loc.bins) THEN Continue(At("run", pc.i + 1), loc)
          ELSE Finish(Ok, inv)
  /\ UNCHANGED <<inv>>

\* ------------------------------------------------------- the specification
\* the configuration paths given to enable: a single invocation is also
\* tried with a configuration naming three DNS servers on two lines, and
\* with a path that ends in a backslash
EnableConfigs ==
  IF mode = "single" THEN ConfigPaths \cup {<<"d">>, <<"e", BS>>} ELSE ConfigPaths

\* the inputs of run
IfNames == {<<"wg0">>}
Bins == {<<"app">>, <<"nobin">>}
RunBins == {<<b>> : b \in Bins}
RunPairs == {<< >>, << <<"DISPLAY", "=", ":0">>, <<"SECRET", "=", "x">> >>}
\* the surroundings of run: the tools installed, the helper's own
\* environment (pkexec sets PKEXEC_UID), /etc/passwd as lines of fields
RunWorlds ==
  { [tools |-> {}, env |-> << >>, passwd |-> None],
    [tools |-> {<<"/usr/bin/setpriv">>}, env |-> << >>, passwd |-> None],
    [tools |-> {<<"/bin/setsid">>},
     env |-> << <<<<"PKEXEC_UID">>, <<"1000">>>> >>,
     passwd |-> Some(<< <<<<"root">>, <<"x">>, <<"0">>, <<"0">>>>,
                        <<<<"u">>, <<"x">>, <<"1000">>, <<"100">>>> >>)],
    [tools |-> {<<"/usr/bin/setsid">>, <<"/bin/setpriv">>},
     env |-> << <<<<"PKEXEC_UID">>, <<"1000">>>> >>, passwd |-> None] }

Next ==
  \/ \E c \in EnableConfigs, n \in IfNames : enable_check(c, n)
  \/ enable_sanitize
  \/ enable_read_ip_forward
  \/ enable_write_ip_forward
  \/ enable_preclean
  \/ enable_body
  \/ enable_rollback
  \/ disable_read_state
  \/ disable_no_session
  \/ disable_remove
  \/ disable_write_ip_forward
  \/ disable_remove_state
  \/ \E b \in RunBins, p \in RunPairs, w \in RunWorlds : run_args(b, p, w)
  \/ run_bin

Spec == Init /\ [][Next]_vars

\* An enable killed on a freshly booted host, then invocations none of
\* whose steps fails without a reason.
InitCrash == \E v \in FlagValues : Start(CleanHost(v), "crash")
NextCrash == Next \/ crash
SpecCrash == InitCrash /\ [][NextCrash]_vars

\* The host after the steps have all done their work on host h.
RECURSIVE AfterSteps(_, _)
AfterSteps(h, steps) ==
  IF steps = << >> THEN h
  ELSE AfterSteps((CHOOSE o \in Perform(h, Head(steps)) : IsOk(o.res) /\ ~o.fault).host,
                  Tail(steps))

\* The host after a successful `enable --config c` on a freshly booted host
\* with flag v.
EnabledHost(v, c) ==
  LET h1 == (CHOOSE o \in SanitizeOutcomes(CleanHost(v), c) : IsOk(o.res)).host
      l == [NoLoc EXCEPT !.config_path = c, !.temp_config = TempConfigPath,
                         !.dns_servers = sanitize_config(ConfigContent(c)[1]).dns_servers,
                         !.ifname = DeriveIfname(TempConfigPath, <<"wg0">>),
                         !.ip_forward_prev = v]
  IN AfterSteps([h1 EXCEPT !.ip_forward = <<"1">>], EnableBody(l))

\* One invocation, any of whose steps may fail, on a freshly booted host or
\* on a host where enable has succeeded.
InitOne ==
  \E v \in FlagValues :
    \/ Start(CleanHost(v), "single")
    \/ \E c \in {p \in ConfigPaths : ConfigContent(p) # None} :
         Start(EnabledHost(v, c), "single")
SpecOne == InitOne /\ [][Next]_vars

\* Serialized sequences of enable and disable invocations on a freshly
\* booted host, with few failures.
InitSeq == \E v \in FlagValues : Start(CleanHost(v), "sequence")
NextSeq ==
  \/ \E c \in EnableConfigs, n \in IfNames : enable_check(c, n)
  \/ enable_sanitize
  \/ enable_read_ip_forward
  \/ enable_write_ip_forward
  \/ enable_preclean
  \/ enable_body
  \/ enable_rollback
  \/ disable_read_state
  \/ disable_no_session
  \/ disable_remove
  \/ disable_write_ip_forward
  \/ disable_remove_state
SpecSeq == InitSeq /\ [][NextSeq]_vars

\* ------------------------------------------------- the sanitizer alone
\* the lines the configurations are made of
SanLines ==
  { <<"[Interface]">>,
    <<"Address", "=", "10.0.0.2/32">>,
    <<"Table", "=", "off">>,
    <<"DNS", "=", "1.1.1.1", ",", "8.8.8.8">>,
    <<" ", "dNS", " ", "=", " ", "9.9.9.9", " ">>,
    <<"DNS", "=">>,
    <<"DNS", " ", " ", "=", "1.0.0.1">>,
    <<"[interface]">>,
    <<" ", "TABLE", " ", "=", " ", "Off", " ">>,
    <<"Table", "=", "auto">> }

\* the configurations of at most MaxLines lines
Configs == UNION {[1..n -> SanLines] : n \in 0..MaxLines}

\* sanitize_config applied to the content read from `original`
sanitize_config_call ==
  /\ mode = "sanitizer"
  /\ pc = At("sanitize_config", 0)
  /\ LET r == sanitize_config(loc.content) IN
       ret' = [kind |-> "ok", tool |-> "", diag |-> << >>,
               output |-> r.output, dns_servers |-> r.dns_servers]
  /\ inv' = [inv EXCEPT !.arg = loc.content]
  /\ pc' = Idle
  /\ loc' = NoLoc
  /\ UNCHANGED <<host, issued, past, runs, faults, mode, procs, sent, churn>>

InitSan ==
  \E c \in Configs :
    /\ host = CleanHost(<<"0">>)
    /\ mode = "sanitizer"
    /\ pc = At("sanitize_config", 0)
    /\ loc = [content |-> c]
    /\ ret = NoRet
    /\ inv = [NewInv("sanitize_config", << >>) EXCEPT !.pre = CleanHost(<<"0">>)]
    /\ issued = << >>
    /\ past = << >>
    /\ runs = 0
    /\ faults = 0
    /\ procs = << >>
    /\ sent = << >>
    /\ churn = 0

NextSan == sanitize_config_call

SpecSan == InitSan /\ [][NextSan]_vars

\* ------------------------------------------------- the process locator
Pids == 1..MaxPid

\* what stat() gives as inode of the sandbox's and of the host's namespace
NsInode == <<"net:sillyvpn-ns">>
HostInode == <<"net:host">>

AppPath == <<"/", "opt", "/", "App">>
PythonPath == <<"/", "usr", "/", "bin", "/", "python">>

\* the application paths stored: a symlink to /opt/App, and a path that
\* names nothing
LocatorPaths == {<<"/", "link">>, <<"/", "nofile">>}

\* canonicalize failing on a symbolic link
canonicalize_NoSymlink(path) == IF path = AppPath THEN Some(AppPath) ELSE None

\* std::fs::canonicalize
canonicalize(path) ==
  IF path \in {<<"/", "link">>, AppPath} THEN Some(AppPath) ELSE None

\* What /proc/<pid> shows of a process, by the kind of process: exe, cmdline
\* (its arguments), comm and ns/net, each None when it cannot be read.
\*   "M" the application, in the sandbox's namespace
\*   "H" the application, in the host's namespace
\*   "U" the application, its namespace not readable
\*   "C" a script named app run by an interpreter, in the sandbox's namespace
\*   "X" another program, in the sandbox's namespace
\*   "G" a process of which nothing can be read
ProcKinds == {"M", "H", "U", "C", "X", "G"}
Attrs(kind) ==
  CASE kind = "M" -> [exe |-> Some(AppPath), cmdline |-> Some(<<AppPath>>),
                      comm |-> Some(<<"App", "<LF>">>), ns |-> Some(NsInode)]
    [] kind = "H" -> [exe |-> Some(AppPath), cmdline |-> Some(<<AppPath>>),
                      comm |-> Some(<<"App", "<LF>">>), ns |-> Some(HostInode)]
    [] kind = "U" -> [exe |-> Some(AppPath), cmdline |-> Some(<<AppPath>>),
                      comm |-> Some(<<"App", "<LF>">>), ns |-> None]
    [] kind = "C" -> [exe |-> Some(PythonPath),
                      cmdline |-> Some(<<PythonPath, <<"/", "home", "/", "run.py">>>>),
                      comm |-> Some(<<"app", "<LF>">>), ns |-> Some(NsInode)]
    [] kind = "X" -> [exe |-> Some(PythonPath), cmdline |-> Some(<<PythonPath>>),
                      comm |-> Some(<<"python", "<LF>">>), ns |-> Some(NsInode)]
    [] OTHER -> [exe |-> None, cmdline |-> None, comm |-> None, ns |-> None]

\* A process: its kind, the moment it started (0: before the locator was
\* called), whether it was sent SIGTERM.
Process(kind, gen) == [kind |-> kind, gen |-> gen, termed |-> FALSE]

\* what the files of /proc/<pid> give when read now: every read fails when
\* no process has the pid
ProcAttrs(table, pid) ==
  IF table[pid] = None THEN Attrs("G") ELSE Attrs(table[pid][1].kind)

\* read_netns_inode taking the caller's own namespace when the named one is
\* not found
read_netns_inode_Fallback(h) ==
  { [res |-> Ok, val |-> IF h.netns THEN Some(NsInode) ELSE Some(HostInode),
     fault |-> FALSE],
    [res |-> IoErr(<<"metadata">>), val |-> None, fault |-> TRUE] }

\* read_netns_inode: Ok(Some(inode)), Ok(None) when the namespace file is
\* not found, Err for any other failure of metadata()
read_netns_inode(h) ==
  { [res |-> Ok, val |-> IF h.netns THEN Some(NsInode) ELSE None, fault |-> FALSE],
    [res |-> IoErr(<<"metadata">>), val |-> None, fault |-> TRUE] }

\* process_in_namespace taking a process whose ns/net cannot be read as inside
process_in_namespace_Unreadable(a, ns_inode) == a.ns = None \/ a.ns[1] = ns_inode

\* process_in_namespace, on what /proc/<pid> shows
process_in_namespace(a, ns_inode) == a.ns # None /\ a.ns[1] = ns_inode

\* process_matches_path, on what /proc/<pid> shows
process_matches_path(a, target, target_base, target_base_lower) ==
  \/ a.exe # None /\ a.exe[1] = target
  \/ /\ a.cmdline # None
     /\ LET parts == SelectSeq(a.cmdline[1], LAMBDA x : x # << >>) IN
        \E i \in DOMAIN parts :
          \/ parts[i] = target
          \/ /\ target_base # << >>
             /\ FileName(parts[i]) # << >>
             /\ \/ FileName(parts[i]) = target_base
                \/ ToAsciiLowercase(FileName(parts[i])) = target_base_lower
  \/ /\ target_base # << >>
     /\ a.comm # None
     /\ LET comm == Trim(a.comm[1]) IN
        comm = target_base \/ ToAsciiLowercase(comm) = target_base_lower

\* read_dir("/proc"): the entries whose name is a pid, in the order listed
ProcEntries(table) ==
  LET present == {p \in Pids : table[p] # None}
      Asc[k \in 0..MaxPid] ==
        IF k = 0 THEN << >>
        ELSE IF k \in present THEN Append(Asc[k - 1], k) ELSE Asc[k - 1]
  IN Asc[MaxPid]

\* proc_exists without the look at /proc
proc_exists_Always(table, pid) == TRUE

\* std::fs::metadata(format!("/proc/{pid}")).is_ok()
proc_exists(table, pid) == table[pid] # None

\* What is remembered of a call of the locator: the function, the path, the
\* host and the process table it was called on, whether the namespace
\* lookup was made to fail for a reason other than not-found, which of its
\* steps failed, the processes killAll collected, and whether all of them
\* were gone when the grace period ended.
LocInv(op, path) ==
  [ op |-> op, arg |-> path, pre |-> host, procs0 |-> procs, nsFault |-> FALSE,
    failed |-> "none", found |-> << >>, goneAtGrace |-> FALSE ]

\* Ok(value)
LocOk(value) == [kind |-> "ok", tool |-> "", diag |-> << >>, val |-> value]

\* Ok(false) of is_app_running_in_namespace, Ok(0) of kill_by_path_in_namespace
Nothing(op) == IF op = "is_app_running_in_namespace" THEN LocOk(FALSE) ELSE LocOk(0)

\* the call returns r
LocFinish(r, i) ==
  /\ pc' = Idle
  /\ ret' = r
  /\ inv' = i
  /\ loc' = NoLoc
  /\ runs' = runs + 1

LocContinue(p, l, i) ==
  /\ pc' = p
  /\ loc' = l
  /\ inv' = i
  /\ UNCHANGED <<ret, runs>>

\* is_app_running_in_namespace(path, ns_name) and
\* kill_by_path_in_namespace(path, ns_name) up to the namespace lookup
locator_call(op, path) ==
  /\ mode = "locator" /\ pc = Idle /\ runs = 0
  /\ \E o \in read_netns_inode(host) :
       LET i == [LocInv(op, path) EXCEPT !.nsFault = o.fault]
       IN IF ~IsOk(o.res) THEN LocFinish(o.res, [i EXCEPT !.failed = "read_netns_inode"])
          ELSE IF o.val = None THEN LocFinish(Nothing(op), i)
          ELSE LocContinue(At("canonicalize", 0),
                           [path |-> path, ns_inode |-> o.val[1], target |-> << >>,
                            target_base |-> << >>, target_base_lower |-> << >>,
                            entries |-> << >>, pids |-> << >>], i)
  /\ UNCHANGED <<host, issued, past, faults, mode, procs, sent, churn>>

\* canonicalize(path)?, and the base name of the target
locator_canonicalize ==
  /\ pc.at = "canonicalize"
  /\ LET t == canonicalize(loc.path) IN
     IF t = None
     THEN LocFinish(IoErr(<<"canonicalize">>), [inv EXCEPT !.failed = "canonicalize"])
     ELSE LocContinue(At("read_dir", 0),
                      [loc EXCEPT !.target = t[1], !.target_base = FileName(t[1]),
                                  !.target_base_lower = ToAsciiLowercase(FileName(t[1]))],
                      inv)
  /\ UNCHANGED <<host, issued, past, faults, mode, procs, sent, churn>>

\* the end of one turn of the loop over the entries: the next entry, or
\* what follows the loop
AfterEntry(l, i) ==
  IF pc.i < Len(l.entries) THEN LocContinue(At("scan", pc.i + 1), l, i)
  ELSE IF i.op = "is_app_running_in_namespace" THEN LocFinish(LocOk(FALSE), i)
  ELSE IF l.pids = << >> THEN LocFinish(LocOk(0), i)
  ELSE LocContinue(At("term", 1), l, i)

\* read_dir("/proc")?
locator_read_dir ==
  /\ pc.at = "read_dir"
  /\ \/ LocFinish(IoErr(<<"read_dir">>), [inv EXCEPT !.failed = "read_dir"])
     \/ LET l == [loc EXCEPT !.entries = ProcEntries(procs)] IN
        IF l.entries # << >> THEN LocContinue(At("scan", 1), l, inv)
        ELSE LocFinish(Nothing(inv.op), inv)
  /\ UNCHANGED <<host, issued, past, faults, mode, procs, sent, churn>>

\* the first test on an entry: the namespace in is_app_running_in_namespace,
\* the path in kill_by_path_in_namespace
scan_first ==
  /\ pc.at = "scan"
  /\ LET a == ProcAttrs(procs, loc.entries[pc.i])
         pass == IF inv.op = "is_app_running_in_namespace"
                 THEN process_in_namespace(a, loc.ns_inode)
                 ELSE process_matches_path(a, loc.target, loc.target_base,
                                           loc.target_base_lower)
     IN IF pass THEN LocContinue(At("scan2", pc.i), loc, inv)
        ELSE AfterEntry(loc, inv)
  /\ UNCHANGED <<host, issued, past, faults, mode, procs, sent, churn>>

\* scan_second where killAll collects a process without the namespace test
scan_second_NoFilter ==
  /\ pc.at = "scan2"
  /\ LET pid == loc.entries[pc.i]
         a == ProcAttrs(procs, pid)
     IN IF inv.op = "is_app_running_in_namespace"
        THEN IF process_matches_path(a, loc.target, loc.target_base, loc.target_base_lower)
             THEN LocFinish(LocOk(TRUE), inv)
             ELSE AfterEntry(loc, inv)
        ELSE IF procs[pid] # None
             THEN AfterEntry([loc EXCEPT !.pids = Append(@, pid)],
                             [inv EXCEPT !.found = Append(@, <<pid, procs[pid][1].gen>>)])
             ELSE AfterEntry(loc, inv)
  /\ UNCHANGED <<host, issued, past, faults, mode, procs, sent, churn>>

\* the second test on an entry, and `return Ok(true)` or `pids.push(pid)`
scan_second ==
  /\ pc.at = "scan2"
  /\ LET pid == loc.entries[pc.i]
         a == ProcAttrs(procs, pid)
     IN IF inv.op = "is_app_running_in_namespace"
        THEN IF process_matches_path(a, loc.target, loc.target_base, loc.target_base_lower)
             THEN LocFinish(LocOk(TRUE), inv)
             ELSE AfterEntry(loc, inv)
        ELSE IF process_in_namespace(a, loc.ns_inode)
             THEN AfterEntry([loc EXCEPT !.pids = Append(@, pid)],
                             [inv EXCEPT !.found = Append(@, <<pid, procs[pid][1].gen>>)])
             ELSE AfterEntry(loc, inv)
  /\ UNCHANGED <<host, issued, past, faults, mode, procs, sent, churn>>

\* libc::kill(pid, sig): the signal reaches whatever process has the pid now
Kill(pid, sig) ==
  sent' = Append(sent, [sig |-> sig, pid |-> pid, victim |-> procs[pid]])

\* kill_term sending SIGKILL right after SIGTERM, without the grace period
kill_term_NoGrace ==
  /\ pc.at = "term"
  /\ LET pid == loc.pids[pc.i] IN
     /\ sent' = sent \o << [sig |-> "SIGTERM", pid |-> pid, victim |-> procs[pid]],
                            [sig |-> "SIGKILL", pid |-> pid, victim |-> procs[pid]] >>
     /\ procs' = [procs EXCEPT ![pid] = None]
  /\ LocContinue(IF pc.i < Len(loc.pids) THEN At("term", pc.i + 1) ELSE At("sleep", 0),
                 loc, inv)
  /\ UNCHANGED <<host, issued, past, faults, mode, churn>>

\* `for pid in &pids { kill(*pid, SIGTERM) }`, one pid
kill_term ==
  /\ pc.at = "term"
  /\ LET pid == loc.pids[pc.i] IN
     /\ Kill(pid, "SIGTERM")
     /\ procs' = IF procs[pid] = None THEN procs
                 ELSE [procs EXCEPT ![pid] = Some([@[1] EXCEPT !.termed = TRUE])]
  /\ LocContinue(IF pc.i < Len(loc.pids) THEN At("term", pc.i + 1) ELSE At("sleep", 0),
                 loc, inv)
  /\ UNCHANGED <<host, issued, past, faults, mode, churn>>

\* the collected process <<pid, gen>> is no more
Gone(table, f) == table[f[1]] = None \/ table[f[1]][1].gen # f[2]

\* thread::sleep(300 ms) ends
kill_sleep ==
  /\ pc.at = "sleep"
  /\ LocContinue(At("kill", 1), loc,
                 [inv EXCEPT !.goneAtGrace =
                    \A k \in DOMAIN inv.found : Gone(procs, inv.found[k])])
  /\ UNCHANGED <<host, issued, past, faults, mode, procs, sent, churn>>

\* `if metadata("/proc/{pid}").is_ok() { kill(*pid, SIGKILL) }`, one pid
kill_kill ==
  /\ pc.at = "kill"
  /\ LET pid == loc.pids[pc.i] IN
     IF proc_exists(procs, pid)
     THEN Kill(pid, "SIGKILL") /\ procs' = [procs EXCEPT ![pid] = None]
     ELSE UNCHANGED <<sent, procs>>
  /\ IF pc.i < Len(loc.pids) THEN LocContinue(At("kill", pc.i + 1), loc, inv)
     ELSE LocFinish(LocOk(Len(loc.pids)), inv)
  /\ UNCHANGED <<host, issued, past, faults, mode, churn>>

\* the locator is between reading the process table and returning
Scanning == pc.at \in {"scan", "scan2", "term", "sleep", "kill"}

\* a process exits: on its own, or because it was sent SIGTERM
proc_exit(pid) ==
  /\ Scanning
  /\ procs[pid] # None
  /\ procs[pid][1].termed \/ churn < MaxChurn
  /\ procs' = [procs EXCEPT ![pid] = None]
  /\ churn' = churn + (IF procs[pid][1].termed THEN 0 ELSE 1)
  /\ UNCHANGED <<host, pc, loc, ret, inv, issued, past, runs, faults, mode, sent>>

\* a process starts, and gets a free pid
proc_spawn(pid, kind) ==
  /\ Scanning
  /\ procs[pid] = None
  /\ churn < MaxChurn
  /\ procs' = [procs EXCEPT ![pid] = Some(Process(kind, churn + 1))]
  /\ churn' = churn + 1
  /\ UNCHANGED <<host, pc, loc, ret, inv, issued, past, runs, faults, mode, sent>>

\* One call of the locator on any process table, with or without the
\* namespace.
InitLoc ==
  \E table \in [Pids -> {None} \cup {Some(Process(k, 0)) : k \in ProcKinds}],
     ns \in BOOLEAN :
    /\ host = [CleanHost(<<"0">>) EXCEPT !.netns = ns]
    /\ mode = "locator"
    /\ pc = Idle
    /\ loc = NoLoc
    /\ ret = NoRet
    /\ issued = << >>
    /\ past = << >>
    /\ runs = 0
    /\ faults = 0
    /\ procs = table
    /\ sent = << >>
    /\ churn = 0
    /\ inv = LocInv("none", << >>)

NextLoc ==
  \/ \E op \in {"is_app_running_in_namespace", "kill_by_path_in_namespace"},
        path \in LocatorPaths : locator_call(op, path)
  \/ locator_canonicalize
  \/ locator_read_dir
  \/ scan_first
  \/ scan_second
  \/ kill_term
  \/ kill_sleep
  \/ kill_kill
  \/ \E pid \in Pids : proc_exit(pid)
  \/ \E pid \in Pids, kind \in ProcKinds : proc_spawn(pid, kind)

SpecLoc == InitLoc /\ [][NextLoc]_vars

\* ---------------------------------------------- path matching alone
\* what /proc/<pid>/exe, cmdline and comm may hold
MatchExes == {None, Some(AppPath), Some(PythonPath), Some(<<"/", "opt", "/", "app">>)}
MatchCmdlines ==
  { None, Some(<< >>), Some(<<AppPath>>),
    Some(<<PythonPath, <<"/", "home", "/", "App">>>>),
    Some(<<PythonPath, <<"APP">>>>),
    Some(<<PythonPath, <<"--App">>>>),
    Some(<<PythonPath, << >>, <<"/", "home", "/", "run.py">>>>) }
MatchComms ==
  { None, Some(<<"App", "<LF>">>), Some(<<"app", "<LF>">>), Some(<<"python", "<LF>">>),
    Some(<<"App", " ", "<LF>">>), Some(<<"run.py", "<LF>">>) }
MatchTargets == {AppPath, PythonPath}

\* process_matches_path(proc_dir, target, target_base, target_base_lower)
\* as the three callers call it
process_matches_path_call ==
  /\ mode = "matcher"
  /\ pc = At("process_matches_path", 0)
  /\ ret' = LocOk(process_matches_path(loc.proc, loc.target, FileName(loc.target),
                                       ToAsciiLowercase(FileName(loc.target))))
  /\ inv' = [inv EXCEPT !.arg = loc]
  /\ pc' = Idle
  /\ loc' = NoLoc
  /\ UNCHANGED <<host, issued, past, runs, faults, mode, procs, sent, churn>>

InitMatch ==
  \E e \in MatchExes, c \in MatchCmdlines, m \in MatchComms, t \in MatchTargets :
    /\ host = CleanHost(<<"0">>)
    /\ mode = "matcher"
    /\ pc = At("process_matches_path", 0)
    /\ loc = [proc |-> [exe |-> e, cmdline |-> c, comm |-> m, ns |-> None], target |-> t]
    /\ ret = NoRet
    /\ inv = [NewInv("process_matches_path", << >>) EXCEPT !.pre = CleanHost(<<"0">>)]
    /\ issued = << >>
    /\ past = << >>
    /\ runs = 0
    /\ faults = 0
    /\ procs = << >>
    /\ sent = << >>
    /\ churn = 0

NextMatch == process_matches_path_call

SpecMatch == InitMatch /\ [][NextMatch]_vars

\* EnabledHost is the host a successful first enable leaves.
EnabledHostReached ==
  (pc = Idle /\ Len(past) = 1 /\ past[1].op = "enable" /\ past[1].ret = "ok")
    => host = EnabledHost(past[1].flag0, past[1].arg)


\* ------------------------------------------------------------ properties
\* The last invocation has returned.
Returned == pc = Idle

\* The first invocation was an enable on the freshly booted (Disabled) host
\* whose body failed; no rollback command failed that had work to do.
FirstEnableFailed ==
  /\ Len(past) >= 1
  /\ past[1].op = "enable" /\ past[1].ret = "err"
  /\ ~past[1].cleanFault

\* C1: from Disabled, when a step of enable's body after the creation of the
\* namespace fails and no cleanup command fails, then after enable has
\* returned and a disable has run its best-effort cleanup there is no
\* namespace, no veth link, and the forwarding flag has its pre-enable value.
C1_RollbackComplete ==
  ( /\ Returned /\ Len(past) = 2
    /\ FirstEnableFailed /\ past[1].afterNs
    /\ past[2].op = "disable" /\ ~past[2].cleanFault )
  => ( /\ ~host.netns
       /\ host.veth = "none"
       /\ host.ip_forward = past[1].flag0 )

\* C1 happens: enable started with the flag at "0", failed after creating
\* the namespace, and disable then ran on the no-session path.
C1_Witness ==
  /\ Returned /\ Len(past) = 2
  /\ FirstEnableFailed /\ past[1].afterNs /\ past[1].flag0 = <<"0">>
  /\ past[2].op = "disable" /\ ~past[2].cleanFault /\ ~past[2].session
  /\ Len(issued) = 3

\* What enable installs outside the namespace.
NothingInstalled(h) ==
  /\ h.rules = EmptyBag
  /\ h.policy = 0
  /\ h.routes = {}
  /\ h.tunnels = {}

\* C2: enable is all-or-nothing: from Disabled, whichever step of the body
\* fails, when enable has returned the error and no rollback command failed,
\* no firewall rule, policy-routing rule or table route remains and the
\* tunnel is down.
C2_AllOrNothing ==
  (Returned /\ Len(past) = 1 /\ FirstEnableFailed /\ inv.failStep >= 1)
  => NothingInstalled(host)


\* The first invocation was a successful enable on the Disabled host.
FirstEnableOk ==
  Len(past) >= 1 /\ past[1].op = "enable" /\ past[1].ret = "ok"

\* C3: for every initial value v of the forwarding flag, the flag is "1"
\* after a successful enable from Disabled, and v again after a successful
\* disable that follows it.
C3_FlagRestored ==
  /\ (Returned /\ Len(past) = 1 /\ FirstEnableOk) => host.ip_forward = <<"1">>
  /\ (Returned /\ Len(past) = 2 /\ FirstEnableOk
        /\ past[2].op = "disable" /\ past[2].ret = "ok")
     => host.ip_forward = past[1].flag0

\* No object of the sandbox is left on host h.
NoSandbox(h) ==
  /\ ~h.netns
  /\ h.veth = "none"
  /\ h.resolv = None
  /\ NothingInstalled(h)

\* Every step the last invocation executed succeeded.
EveryStepOk == \A i \in DOMAIN issued : issued[i].ok

\* C4: disable reverses what enable did: after a successful enable from
\* Disabled and a disable, run as a separate invocation, all of whose
\* commands succeed, the namespace, the veth pair, the resolver file, the
\* firewall rules, the policy rule, the table route and the tunnel are gone.
C4_DisableReverses ==
  (Returned /\ Len(past) = 2 /\ FirstEnableOk
     /\ past[2].op = "disable" /\ past[2].ret = "ok" /\ EveryStepOk)
  => NoSandbox(host)

\* C5: an enable killed between setting the forwarding flag and persisting
\* the session is recovered by disable alone, and by a successful enable
\* followed by disable: no namespace, no veth link, no tunnel, no firewall
\* or policy rule, and the flag as before the killed enable.
C5_CrashRecoverable ==
  ( /\ Returned /\ Len(past) >= 2
    /\ past[1].ret = "crashed" /\ past[1].diedIn \in {"preclean", "body"}
    /\ \/ Len(past) = 2 /\ past[2].op = "disable"
       \/ Len(past) = 3 /\ past[2].op = "enable" /\ past[2].ret = "ok"
          /\ past[3].op = "disable" )
  => ( /\ ~host.netns /\ host.veth = "none"
       /\ NothingInstalled(host)
       /\ host.ip_forward = past[1].flag0 )

\* read_state cannot load a session from host h: no state file, or one that
\* does not parse.
NoSession(h) == h.state = None \/ ~ParseState(h.state[1]).ok

\* The steps the last invocation executed.
Executed == [i \in DOMAIN issued |-> issued[i].step]

\* h with the three objects cleanup_best_effort removes blanked out
ButCleanupTargets(h) ==
  [h EXCEPT !.veth = "none", !.vethCfg = {}, !.netns = FALSE, !.resolv = None]

\* C6: a disable invoked when no session is persisted returns success
\* whatever its cleanup commands do, runs only the removal of the veth link,
\* of the namespace and of the resolver file, leaves the forwarding flag and
\* everything else alone, and leaves no session behind (so that the next
\* disable is again such a disable, and succeeds).
C6_NoSessionDisable ==
  (Returned /\ inv.op = "disable" /\ NoSession(inv.pre))
  => ( /\ IsOk(ret)
       /\ Executed = << Cmd("ip", <<<<"link">>, <<"del">>, <<"svpn0">>>>),
                        Cmd("ip", <<<<"netns">>, <<"del">>, <<"sillyvpn-ns">>>>),
                        Cmd("cleanup_dns_for_namespace", << >>) >>
       /\ host.ip_forward = inv.pre.ip_forward
       /\ ButCleanupTargets(host) = ButCleanupTargets(inv.pre)
       /\ NoSession(host) )

\* C6 happens: the second of two disables in a row found no state file, its
\* removals of the veth link and of the namespace both failed, and it
\* returned success.
C6_Witness ==
  /\ Returned /\ Len(past) = 2
  /\ past[1].op = "disable" /\ past[2].op = "disable"
  /\ inv.pre.state = None /\ IsOk(ret)
  /\ Len(issued) = 3 /\ ~issued[1].ok /\ ~issued[2].ok

\* The log holds a step of this tool whose arguments start
\* with prefix.
Attempted(log, tool, prefix) ==
  \E i \in DOMAIN log : log[i].step.tool = tool /\ StartsWith(log[i].step.args, prefix)

\* the iptables deletions in log
Deletions(log) ==
  {i \in DOMAIN log : log[i].step.tool = "iptables"
                      /\ \E j \in DOMAIN log[i].step.args : log[i].step.args[j] = <<"-D">>}

\* C7: with a session persisted, disable attempts the four rule deletions,
\* the removal of the policy rule and of the table route, the tunnel down,
\* the removal of veth, namespace and resolver file, and the restoration of
\* the flag, whichever of them fail; it returns an error exactly when the
\* write of the flag fails.
C7_DisableBestEffort ==
  (Returned /\ inv.op = "disable" /\ inv.session)
  => ( /\ Attempted(issued, "iptables", L(<<"-t", "mangle", "-D", "PREROUTING">>))
       /\ Attempted(issued, "iptables", L(<<"-t", "nat", "-D", "POSTROUTING">>))
       /\ Cardinality(Deletions(issued)) = 4
       /\ Attempted(issued, "ip", L(<<"rule", "del">>))
       /\ Attempted(issued, "ip", L(<<"route", "del">>))
       /\ Attempted(issued, "wg-quick", L(<<"down">>))
       /\ Attempted(issued, "ip", L(<<"link", "del">>))
       /\ Attempted(issued, "ip", L(<<"netns", "del">>))
       /\ Attempted(issued, "cleanup_dns_for_namespace", << >>)
       /\ Attempted(issued, "write_ip_forward", << >>)
       /\ IsOk(ret) <=> (\A i \in DOMAIN issued :
                           issued[i].step.tool = "write_ip_forward" => issued[i].ok) )

\* C7 happens: the first rule deletion, the tunnel down and the removal of
\* the namespace failed, the flag was written, and disable returned success.
C7_Witness ==
  /\ Returned /\ inv.op = "disable" /\ inv.session /\ IsOk(ret)
  /\ Len(issued) = 12
  /\ ~issued[1].ok /\ ~issued[7].ok /\ ~issued[9].ok
  /\ host.tunnels # {} /\ host.netns

\* C8: after a disable that returns success, on the normal path or on the
\* cleanup path taken when the session cannot be loaded, no session record
\* is persisted.
C8_NoRecordAfterDisable ==
  (Returned /\ inv.op = "disable" /\ IsOk(ret)) => host.state = None

\* the log entries of one phase of the last invocation
Phase(ph) == SelectSeq(issued, LAMBDA e : e.phase = ph)

\* r is the error run_cmd, or the file operation, gives for this step
IsErrorOf(r, step) ==
  IF step.tool \in {"ip", "iptables", "wg-quick"}
  THEN r.tool = step.tool /\ r.kind \in {"error", "failed to start"} /\ r.diag = step.args
  ELSE r.tool = "io" /\ r.kind = "error" /\ r.diag = <<<<step.tool>>>>

\* C9: when a step of enable's body fails, enable returns the error of that
\* step whatever the rollback steps do, and all the rollback steps are
\* attempted: veth, namespace, resolver file (twice), flag, the two FORWARD
\* rules, the NAT rule, tunnel down.
C9_OriginalErrorReturned ==
  (Returned /\ inv.op = "enable" /\ inv.failStep > 0)
  => LET body == Phase("body")
         rb == Phase("rollback")
     IN /\ Len(body) = inv.failStep
        /\ ~body[Len(body)].ok
        /\ IsErrorOf(ret, body[Len(body)].step)
        /\ Len(rb) = 9
        /\ Attempted(rb, "ip", L(<<"link", "del">>))
        /\ Attempted(rb, "ip", L(<<"netns", "del">>))
        /\ Attempted(rb, "cleanup_dns_for_namespace", << >>)
        /\ Attempted(rb, "write_ip_forward", << >>)
        /\ Attempted(rb, "iptables", L(<<"-D", "FORWARD">>))
        /\ Attempted(rb, "iptables", L(<<"-t", "nat", "-D", "POSTROUTING">>))
        /\ Cardinality(Deletions(rb)) = 3
        /\ Attempted(rb, "wg-quick", L(<<"down">>))

\* C9 happens: the write of the session failed, then the removal of the
\* veth link, the write of the flag and the tunnel down failed in rollback,
\* and enable returned.
C9_Witness ==
  /\ Returned /\ inv.op = "enable" /\ inv.failStep = 17
  /\ LET rb == Phase("rollback") IN
       Len(rb) = 9 /\ ~rb[1].ok /\ ~rb[5].ok /\ ~rb[9].ok
  /\ host.veth # "none" /\ host.tunnels # {}

\* C10: enable with a config path that does not exist returns an error and
\* changes nothing on the host (no sanitized config, no flag write, no
\* session) and runs no command; run with a binary that does not exist
\* returns an error and launches nothing.
C10_PreconditionErrors ==
  /\ (Returned /\ inv.op = "enable" /\ ConfigContent(inv.arg) = None)
     => (~IsOk(ret) /\ ret.kind # "none" /\ host = inv.pre /\ issued = << >>)
  /\ (Returned /\ inv.op = "run" /\ inv.arg = << <<"nobin">> >>)
     => (~IsOk(ret) /\ ret.kind # "none" /\ host = inv.pre)

\* C10 happens: the sandbox is up, and an enable naming a missing file has
\* returned.
C10_Witness ==
  /\ Returned /\ Len(past) = 2 /\ FirstEnableOk
  /\ inv.op = "enable" /\ ConfigContent(inv.arg) = None
  /\ host.netns /\ host.state # None

\* The host has no sandbox object and no session: the Disabled state.
Disabled(h) == NoSandbox(h) /\ h.state = None

\* C11: starting from Disabled, when enable has returned, a session that
\* read_state can load is persisted exactly when enable returned success;
\* the state file was touched only after the sixteen other steps of the
\* body had succeeded; and the session holds the base name without
\* extension of the sanitized file (whatever --ifname was), the original
\* and the sanitized config path, and the flag as it was before enable.
C11_SessionRecord ==
  (Returned /\ inv.op = "enable" /\ Disabled(inv.pre))
  => ( /\ IsOk(ret) <=> ~NoSession(host)
       /\ host.state # None
            => (Len(Phase("body")) = 17 /\ \A i \in 1..16 : Phase("body")[i].ok)
       /\ (IsOk(ret) /\ ~NoSession(host))
            => LET st == ParseState(host.state[1]) IN
               /\ st.wg_ifname = <<"wg-temp">>
               /\ st.wg_ifname # inv.ifname
               /\ st.config_path = inv.arg
               /\ st.temp_config = <<"/", "run", "/", "sillyvpn", "/", "wg-temp", ".", "conf">>
               /\ st.ip_forward_prev = inv.pre.ip_forward )

\* the processes launched by the run invocations so far
Launched == host.spawned

\* C18: the environment of every launched process holds only keys of the
\* allow-list: no other key of the helper's own environment and no other
\* key given with --env is in it.
C18_OnlyAllowedEnv ==
  \A i \in DOMAIN Launched : \A j \in DOMAIN Launched[i].env :
    Launched[i].env[j][1] \in
      { <<"DISPLAY">>, <<"WAYLAND_DISPLAY">>, <<"XAUTHORITY">>, <<"XDG_RUNTIME_DIR">>,
        <<"DBUS_SESSION_BUS_ADDRESS">>, <<"HOME">>, <<"USER">>, <<"LOGNAME">>, <<"PATH">> }

\* argv holds the privilege drop to user uid: setpriv switching uid and
\* gid, initialising the groups and dropping the inheritable capabilities
DropsPrivileges(argv, uid) ==
  \E k \in DOMAIN argv :
    /\ k + 7 <= Len(argv)
    /\ argv[k] \in {<<"/usr/bin/setpriv">>, <<"/bin/setpriv">>}
    /\ argv[k + 1] = <<"--reuid">> /\ argv[k + 2] = uid
    /\ argv[k + 3] = <<"--regid">>
    /\ SubSeq(argv, k + 5, k + 7) = <<<<"--init-groups">>, <<"--inh-caps">>, <<"-all">>>>

\* argv holds no sign of a privilege drop
NoPrivilegeDrop(argv) ==
  \A k \in DOMAIN argv :
    argv[k] \notin {<<"/usr/bin/setpriv">>, <<"/bin/setpriv">>, <<"--reuid">>, <<"--regid">>}

\* argv runs bin inside the namespace
InsideNamespace(argv, bin) ==
  /\ argv[Len(argv)] = bin
  /\ \E k \in DOMAIN argv :
       SubSeq(argv, k, k + 3) = <<<<"/usr/bin/ip">>, <<"netns">>, <<"exec">>, <<"sillyvpn-ns">>>>

\* the surroundings give a caller identity and a setpriv
CanDrop(w) ==
  /\ \E i \in DOMAIN w.env : w.env[i][1] = <<"PKEXEC_UID">>
  /\ w.tools \cap {<<"/usr/bin/setpriv">>, <<"/bin/setpriv">>} # {}

\* C19: a launch of an existing binary fails only when the spawn itself
\* fails; the process it starts runs inside the namespace, with the
\* privilege drop to the caller when PKEXEC_UID is set and a setpriv is
\* installed, and without any privilege drop otherwise.
C19_PrivilegeDrop ==
  (Returned /\ inv.op = "run" /\ inv.arg = << <<"app">> >>)
  => IF IsOk(ret)
     THEN LET argv == Launched[Len(Launched)].argv IN
          /\ InsideNamespace(argv, <<"app">>)
          /\ IF CanDrop(inv.world) THEN DropsPrivileges(argv, <<"1000">>)
             ELSE NoPrivilegeDrop(argv)
     ELSE ret.diag = <<<<"spawn">>>>

\* C19 happens: a binary was launched with the privilege drop, by a setpriv
\* found in /bin.
C19_Witness ==
  /\ Returned /\ inv.op = "run" /\ IsOk(ret) /\ CanDrop(inv.world)
  /\ <<"/usr/bin/setpriv">> \notin inv.world.tools
  /\ Len(Launched) >= 1
  /\ DropsPrivileges(Launched[Len(Launched)].argv, <<"1000">>)

\* A DNS= line: trimmed and in lower case it begins with "dns=" or "dns =".
DnsLine(line) ==
  LET t == Trim(line) IN
  /\ Len(t) >= 2
  /\ t[1] \in {"DNS", "dns", "Dns", "dNS"}
  /\ t[2] = "=" \/ (Len(t) >= 3 /\ t[2] = " " /\ t[3] = "=")

\* the values of a DNS= line: what stands after the '=' between commas and
\* white space
ValuesOf(line) ==
  LET k == CHOOSE i \in DOMAIN line : line[i] = "="
      rest == SubSeq(line, k + 1, Len(line))
      vals == SelectSeq(rest, LAMBDA c : c \notin {",", " ", "<TAB>"})
  IN [i \in DOMAIN vals |-> <<vals[i]>>]

\* the values of the DNS= lines of a configuration, in line order
RECURSIVE DnsValues(_)
DnsValues(content) ==
  IF content = << >> THEN << >>
  ELSE (IF DnsLine(Head(content)) THEN ValuesOf(Head(content)) ELSE << >>)
       \o DnsValues(Tail(content))

\* the lines of a configuration that are no DNS= lines, in order
OtherLines(content) == SelectSeq(content, LAMBDA l : ~DnsLine(l))

\* out is kept, or kept with one "Table = off" line put in
KeptInOrder(out, kept) ==
  \/ out = kept
  \/ \E k \in 0..Len(kept) :
       out = SubSeq(kept, 1, k) \o << <<"Table", " ", "=", " ", "off">> >>
               \o SubSeq(kept, k + 1, Len(kept))

\* The sanitizer has returned: inv.arg is the configuration, ret the result.
Sanitized == Returned /\ inv.op = "sanitize_config"

\* C20 as amended: for every configuration, the sanitized output holds the
\* lines that are no DNS= lines, in their order (and at most the inserted
\* "Table = off"), so a line is removed exactly when it is a DNS= line,
\* whether or not it carries a value; and the server list is the
\* concatenation, in line order, of the values of the DNS= lines.
C20_SanitizeDns ==
  Sanitized
  => ( /\ \A i \in DOMAIN ret.output : ~DnsLine(ret.output[i])
       /\ KeptInOrder(ret.output, OtherLines(inv.arg))
       /\ ret.dns_servers = DnsValues(inv.arg) )

\* C20 happens: a configuration with a section header, a DNS= line without
\* a value and a DNS= line with two values has been sanitized: both DNS=
\* lines are gone and the two values were extracted.
C20_Witness ==
  /\ Sanitized
  /\ inv.arg = << <<"[Interface]">>, <<"DNS", "=">>,
                  <<"DNS", "=", "1.1.1.1", ",", "8.8.8.8">> >>
  /\ ret.dns_servers = << <<"1.1.1.1">>, <<"8.8.8.8">> >>
  /\ ret.output = << <<"[Interface]">>, <<"Table", " ", "=", " ", "off">> >>

\* C20 as stated: as above, and a line is removed from the output if and
\* only if it contributes a value to the extracted list.
C20_RemovedIffContributes ==
  Sanitized
  => ( /\ \A i \in DOMAIN ret.output : ~DnsLine(ret.output[i])
       /\ KeptInOrder(ret.output, OtherLines(inv.arg))
       /\ ret.dns_servers = DnsValues(inv.arg)
       /\ \A i \in DOMAIN inv.arg :
            (\A j \in DOMAIN ret.output : ret.output[j] # inv.arg[i])
            <=> (DnsLine(inv.arg[i]) /\ ValuesOf(inv.arg[i]) # << >>) )

\* The locator has returned from its one call.
Located == Returned /\ mode = "locator" /\ runs = 1

\* Process p is an instance of the application /opt/App (kinds M, H, U) or
\* bears its name (kind C).
IsApp(p) == p.kind \in {"M", "H", "U", "C"}

\* Process p is in the sandbox's namespace, and /proc shows it.
InNs(p) == p.kind \in {"M", "C", "X"}

\* the pids that held, when the locator was called, a process that matches
\* the path and is in the namespace, and one that matches and is not
Inside == {pid \in Pids : inv.procs0[pid] # None /\ IsApp(inv.procs0[pid][1])
                                                 /\ InNs(inv.procs0[pid][1])}
Outside == {pid \in Pids : inv.procs0[pid] # None /\ IsApp(inv.procs0[pid][1])
                                                  /\ ~InNs(inv.procs0[pid][1])}

\* C12: on a process table that does not change during the call, a process
\* that matches the path but is in another namespace, or whose namespace
\* cannot be read, does not make isRunning return true, is sent no signal by
\* killAll and is not counted by it.
C12_NamespaceScoping ==
  (Located /\ IsOk(ret) /\ inv.pre.netns /\ churn = 0)
  => IF inv.op = "is_app_running_in_namespace"
     THEN ret.val <=> Inside # {}
     ELSE /\ \A k \in DOMAIN sent : sent[k].pid \notin Outside
          /\ \A k \in DOMAIN inv.found : inv.found[k][1] \notin Outside
          /\ ret.val = Cardinality(Inside)

\* C12 happens: killAll ran on a table holding the application in the
\* host's namespace under pid 1 and in the sandbox's under pid 2, signalled
\* pid 2 and returned 1.
C12_Witness ==
  /\ Located /\ inv.op = "kill_by_path_in_namespace" /\ IsOk(ret) /\ churn = 0
  /\ inv.procs0[1] # None /\ inv.procs0[1][1].kind = "H"
  /\ inv.procs0[2] # None /\ inv.procs0[2][1].kind = "M"
  /\ ret.val = 1 /\ Len(sent) >= 1 /\ sent[1].pid = 2

\* C13: every signal killAll delivers reaches a process that is in the
\* namespace and matches the path, whatever exits and starts meanwhile.
C13_SignalsOnlyTargets ==
  \A k \in DOMAIN sent :
    sent[k].victim # None => (IsApp(sent[k].victim[1]) /\ InNs(sent[k].victim[1]))

\* C14: when the namespace does not exist, isRunning returns false and
\* killAll returns 0, without error, whether or not the path can be
\* resolved, and no signal is sent.
C14_NoNamespace ==
  (Located /\ ~inv.pre.netns /\ ~inv.nsFault)
  => ( /\ IsOk(ret)
       /\ IF inv.op = "is_app_running_in_namespace" THEN ret.val = FALSE ELSE ret.val = 0
       /\ sent = << >> )

\* C14 happens: killAll was called without the namespace, with a path that
\* names nothing, while the application was running on the host, and
\* returned 0.
C14_Witness ==
  /\ Located /\ inv.op = "kill_by_path_in_namespace" /\ ~inv.pre.netns
  /\ inv.arg = <<"/", "nofile">>
  /\ inv.procs0[1] # None /\ inv.procs0[1][1].kind = "H"
  /\ IsOk(ret) /\ ret.val = 0

\* The matcher has returned: inv.arg is what it was given, ret.val its answer.
Matched == Returned /\ mode = "matcher" /\ inv.op = "process_matches_path"

\* names x and y are equal, exactly or but for the case of ASCII letters
SameName(x, y) == x = y \/ ToAsciiLowercase(x) = ToAsciiLowercase(y)

\* the short command name in the content of a comm file: the content
\* without the line feed that ends it
CommandName(content) ==
  IF content # << >> /\ content[Len(content)] = "<LF>"
  THEN SubSeq(content, 1, Len(content) - 1) ELSE content

\* C15: a process matches the target exactly when its exe link is the
\* target, or an argument is the target, or an argument's base name is the
\* target's base name (exactly or but for case), or its command name is the
\* target's base name (exactly or but for case).
C15_MatchIff ==
  Matched
  => LET a == inv.arg.proc
         target == inv.arg.target
     IN ret.val <=>
          \/ a.exe = Some(target)
          \/ a.cmdline # None /\ \E i \in DOMAIN a.cmdline[1] :
               \/ a.cmdline[1][i] = target
               \/ SameName(FileName(a.cmdline[1][i]), FileName(target))
          \/ a.comm # None /\ SameName(CommandName(a.comm[1]), FileName(target))

\* the collected processes, as a set of <<pid, gen>>
Found == {inv.found[k] : k \in DOMAIN inv.found}

\* C16: killAll returns the number N of processes it collected (the
\* matching processes in the namespace, when the table did not change
\* meanwhile), whatever became of them; and when all N are gone at the end
\* of the grace period, SIGKILL is sent to none of them: it is sent only to
\* a pid that a later process holds.
C16_CountAndGrace ==
  (Located /\ inv.op = "kill_by_path_in_namespace" /\ IsOk(ret) /\ inv.pre.netns)
  => ( /\ ret.val = Len(inv.found)
       /\ churn = 0 => ret.val = Cardinality(Inside)
       /\ inv.goneAtGrace
            => \A k \in DOMAIN sent :
                 sent[k].sig = "SIGKILL"
                 => ( /\ sent[k].victim # None
                      /\ <<sent[k].pid, sent[k].victim[1].gen>> \notin Found ) )

\* C16 happens: killAll collected two processes, both exited on SIGTERM
\* within the grace period, no SIGKILL was sent and 2 was returned.
C16_Witness ==
  /\ Located /\ inv.op = "kill_by_path_in_namespace" /\ IsOk(ret)
  /\ ret.val = 2 /\ inv.goneAtGrace
  /\ Len(sent) = 2 /\ sent[1].sig = "SIGTERM" /\ sent[2].sig = "SIGTERM"
  /\ churn = 0

\* C17: the locator returns an error only when the namespace lookup fails
\* for a reason other than not-found, when the path cannot be canonicalized
\* (the namespace existing), or when /proc cannot be listed; never because
\* of what can or cannot be read of a process, or of processes exiting and
\* starting during the scan.
C17_ErrorsOnlyFromOwnSteps ==
  Located
  => ( ~IsOk(ret) <=>
         \/ inv.nsFault
         \/ inv.pre.netns /\ inv.arg = <<"/", "nofile">>
         \/ inv.failed = "read_dir" )

\* C17 happens: the table held a process of which nothing can be read and
\* the application; a process exited and another started during the scan;
\* the locator returned without error.
C17_Witness ==
  /\ Located /\ IsOk(ret) /\ inv.pre.netns /\ churn = 2
  /\ inv.procs0[1] # None /\ inv.procs0[1][1].kind = "G"
  /\ inv.procs0[2] # None /\ inv.procs0[2][1].kind = "M"
  /\ procs[2] = None /\ procs[1] # None /\ procs[1][1].gen > 0

\* A Table directive: the trimmed line begins, in any case, with "table"
\* and, after spaces, "=".
TableDirective(line) ==
  LET t == SelectSeq(Trim(line), LAMBDA c : c # " ") IN
  Len(t) >= 2 /\ t[1] \in {"Table", "TABLE", "table"} /\ t[2] = "="

\* A "table=off" line, but for case and spaces.
TableOff(line) ==
  LET t == SelectSeq(Trim(line), LAMBDA c : c # " ") IN
  /\ Len(t) = 3 /\ t[1] \in {"Table", "TABLE", "table"} /\ t[2] = "="
  /\ t[3] \in {"off", "Off", "OFF"}

\* An [Interface] section header line.
InterfaceLine(line) == Trim(line) = <<"[Interface]">>

\* lines with "Table = off" put in right after position k
InsertedAfter(lines, k) ==
  SubSeq(lines, 1, k) \o << <<"Table", " ", "=", " ", "off">> >>
    \o SubSeq(lines, k + 1, Len(lines))

\* the position of the first [Interface] line of lines, 0 when it has none
FirstInterface(lines) ==
  IF \E k \in DOMAIN lines : InterfaceLine(lines[k])
  THEN CHOOSE k \in DOMAIN lines :
         InterfaceLine(lines[k]) /\ \A j \in 1..(k - 1) : ~InterfaceLine(lines[j])
  ELSE 0

\* C21 as amended: for every configuration without any Table directive
\* that has an [Interface] line, the output is the configuration without
\* its DNS= lines and with one "Table = off" line right after the first
\* [Interface] line; without an [Interface] line nothing is inserted; and
\* for every configuration holding "table=off" (but for case and spaces)
\* nothing is inserted: the output is the configuration without its DNS=
\* lines.
C21_TableOff ==
  Sanitized
  => LET kept == OtherLines(inv.arg)
         k == FirstInterface(kept)
     IN /\ (\A i \in DOMAIN inv.arg : ~TableDirective(inv.arg[i]))
             => ret.output = (IF k > 0 THEN InsertedAfter(kept, k) ELSE kept)
        /\ (\E i \in DOMAIN inv.arg : TableOff(inv.arg[i]))
             => ret.output = kept

\* C21 happens: a configuration without Table directive, with a DNS= line
\* before and two [Interface] lines, was sanitized: "Table = off" stands
\* once, right after the first [Interface] line.
C21_Witness ==
  /\ Sanitized
  /\ inv.arg = << <<" ", "dNS", " ", "=", " ", "9.9.9.9", " ">>, <<"[Interface]">>,
                  <<"[Interface]">> >>
  /\ ret.output = << <<"[Interface]">>, <<"Table", " ", "=", " ", "off">>,
                     <<"[Interface]">> >>

\* C21 as stated: every configuration without any Table directive gets one
\* "Table = off" line right after its first [Interface] line; a
\* configuration holding "table=off" gets none and is otherwise unchanged.
C21_AlwaysInserted ==
  Sanitized
  => LET kept == OtherLines(inv.arg)
         k == FirstInterface(kept)
     IN /\ (\A i \in DOMAIN inv.arg : ~TableDirective(inv.arg[i]))
             => (k > 0 /\ ret.output = InsertedAfter(kept, k))
        /\ (\E i \in DOMAIN inv.arg : TableOff(inv.arg[i]))
             => ret.output = kept

\* the resolver file a configuration calls for: one nameserver line per
\* value of its DNS= lines, in order; the two public resolvers when it has
\* none
ResolverFor(content) ==
  LET servers == DnsValues(content) IN
  IF servers = << >>
  THEN << <<"nameserver", " ", "1.1.1.1">>, <<"nameserver", " ", "8.8.8.8">> >>
  ELSE [i \in DOMAIN servers |-> <<"nameserver", " ">> \o servers[i]]

\* C22: in enable's body the resolver file is written as second step, after
\* the namespace was created and before the veth pair is; once written, and
\* as long as the body runs, and after enable has returned success, it
\* holds one nameserver line per DNS server of the configuration, in order,
\* or "nameserver 1.1.1.1", "nameserver 8.8.8.8" when there is none.
C22_ResolverFile ==
  inv.op = "enable"
  => LET body == Phase("body") IN
     /\ \A i \in DOMAIN body :
          body[i].step.tool = "setup_dns_for_namespace"
          => (i = 2 /\ body[1].ok
                /\ body[1].step = Cmd("ip", <<<<"netns">>, <<"add">>, <<"sillyvpn-ns">>>>))
     /\ \A i \in DOMAIN body :
          (body[i].step.tool = "ip" /\ StartsWith(body[i].step.args, L(<<"link", "add">>)))
          => (i = 3 /\ body[2].ok /\ body[2].step.tool = "setup_dns_for_namespace")
     /\ (Len(body) >= 2 /\ body[2].ok /\ (pc.at = "body" \/ (Returned /\ IsOk(ret))))
          => host.resolv = Some(ResolverFor(ConfigContent(inv.arg)[1]))

\* C22 happens: enable succeeded with a configuration naming three servers
\* on two lines.
C22_Witness ==
  /\ Returned /\ inv.op = "enable" /\ IsOk(ret)
  /\ inv.arg = <<"d">>
  /\ host.resolv = Some(<< <<"nameserver", " ", "1.1.1.1">>,
                           <<"nameserver", " ", "8.8.8.8">>,
                           <<"nameserver", " ", "9.9.9.9">> >>)

\* the steps of enable's transactional body, in the order stated
BodySteps ==
  << Cmd("ip", L(<<"netns", "add", "sillyvpn-ns">>)),
     Cmd("setup_dns_for_namespace", << >>),
     Cmd("ip", L(<<"link", "add", "svpn0", "type", "veth", "peer", "name", "svpn1">>)),
     Cmd("ip", L(<<"link", "set", "svpn1", "netns", "sillyvpn-ns">>)),
     Cmd("ip", L(<<"addr", "add", "10.200.0.1/24", "dev", "svpn0">>)),
     Cmd("ip", L(<<"link", "set", "svpn0", "up">>)),
     Cmd("ip", L(<<"netns", "exec", "sillyvpn-ns", "ip", "addr", "add", "10.200.0.2/24",
                   "dev", "svpn1">>)),
     Cmd("ip", L(<<"netns", "exec", "sillyvpn-ns", "ip", "link", "set", "svpn1", "up">>)),
     Cmd("ip", L(<<"netns", "exec", "sillyvpn-ns", "ip", "route", "add", "default", "via",
                   "10.200.0.1">>)),
     Cmd("wg-quick", L(<<"up">>)),
     Cmd("ip", L(<<"rule", "add", "fwmark", "0x51", "table", "51820">>)),
     Cmd("ip", L(<<"route", "add", "default", "dev", "wg-temp", "table", "51820">>)),
     Cmd("iptables", L(<<"-t", "mangle", "-A", "PREROUTING", "-i", "svpn0", "-j", "MARK",
                         "--set-mark", "0x51">>)),
     Cmd("iptables", L(<<"-A", "FORWARD", "-i", "svpn0", "-o", "wg-temp", "-j", "ACCEPT">>)),
     Cmd("iptables", L(<<"-A", "FORWARD", "-i", "wg-temp", "-o", "svpn0", "-j", "ACCEPT">>)),
     Cmd("iptables", L(<<"-t", "nat", "-A", "POSTROUTING", "-s", "10.200.0.0/24", "-o",
                         "wg-temp", "-j", "MASQUERADE">>)),
     Cmd("write_state", << >>) >>

\* step is the k-th step of the body: the same command line; for the
\* resolver file, the tunnel and the session, the same operation
IsBodyStep(step, k) ==
  /\ step.tool = BodySteps[k].tool
  /\ StartsWith(step.args, BodySteps[k].args)
  /\ step.tool \in {"ip", "iptables"} => step.args = BodySteps[k].args

\* C23: the steps of enable's body are issued in the stated order, from the
\* first; every step but the last one issued has succeeded; rollback starts
\* only after a failed step, which is then the last step of the body
\* issued: no step of the body follows it.
C23_BodyOrder ==
  inv.op = "enable"
  => LET body == Phase("body") IN
     /\ Len(body) <= 17
     /\ \A k \in DOMAIN body : IsBodyStep(body[k].step, k)
     /\ \A k \in DOMAIN body : k < Len(body) => body[k].ok
     /\ (pc.at = "body") => (Len(body) = pc.i - 1 /\ \A k \in DOMAIN body : body[k].ok)
     /\ (pc.at = "rollback" \/ Phase("rollback") # << >>)
          => (body # << >> /\ ~body[Len(body)].ok)
     /\ \A i, j \in DOMAIN issued :
          (i < j /\ issued[i].phase = "rollback") => issued[j].phase = "rollback"
     /\ (Returned /\ IsOk(ret)) => (Len(body) = 17 /\ body[17].ok)

\* C23 happens: on a host where the tunnel is already up, enable issued the
\* first ten steps of the body, the tenth (tunnel up) failed, and the nine
\* rollback steps followed.
C23_Witness ==
  /\ Returned /\ inv.op = "enable" /\ inv.pre.tunnels # {}
  /\ Len(Phase("body")) = 10 /\ ~Phase("body")[10].ok
  /\ Phase("body")[10].step.tool = "wg-quick"
  /\ Len(Phase("rollback")) = 9
  /\ faults = 0

\* the signals of one kind sent so far, the pids of a list of signals, and
\* the pids killAll collected, each in order
Signals(sig) == SelectSeq(sent, LAMBDA e : e.sig = sig)
PidsOf(log) == [k \in DOMAIN log |-> log[k].pid]
Collected == [k \in DOMAIN inv.found |-> inv.found[k][1]]

\* C24: killAll sends no signal while it scans the process table; SIGTERM
\* goes to every collected pid, in order, before any SIGKILL is sent; and
\* after the grace period, when its turn comes, a collected pid is sent
\* SIGKILL exactly when the process table has an entry for it (and nothing
\* else is sent).
C24_ScanTermKill ==
  /\ [] ( /\ pc.at \in {"canonicalize", "read_dir", "scan", "scan2"} => sent = << >>
          /\ \A i, j \in DOMAIN sent :
               (i < j /\ sent[i].sig = "SIGKILL") => sent[j].sig = "SIGKILL"
          /\ pc.at = "term" => PidsOf(sent) = SubSeq(Collected, 1, pc.i - 1)
          /\ (pc.at \in {"sleep", "kill"} \/ (sent # << >> /\ Returned))
               => PidsOf(Signals("SIGTERM")) = Collected )
  /\ [][ (pc.at = "kill" /\ pc' # pc)
         => LET pid == Collected[pc.i] IN
            sent' = IF procs[pid] # None
                    THEN Append(sent, [sig |-> "SIGKILL", pid |-> pid, victim |-> procs[pid]])
                    ELSE sent ]_vars

\* C24 happens: killAll collected pids 1 and 2 and sent SIGTERM to both;
\* the process of pid 1 exited within the grace period; SIGKILL went to
\* pid 2 alone.
C24_Witness ==
  /\ Located /\ inv.op = "kill_by_path_in_namespace" /\ IsOk(ret) /\ churn = 0
  /\ Collected = <<1, 2>>
  /\ PidsOf(sent) = <<1, 2, 2>>
  /\ sent[3].sig = "SIGKILL" /\ sent[3].victim # None

\* The last invocation was a disable that loaded a session; its write of
\* the forwarding flag failed, or succeeded.
RestoreFailed ==
  /\ Returned /\ inv.op = "disable" /\ inv.session
  /\ Phase("restore") # << >> /\ ~Phase("restore")[1].ok
RestoreOk ==
  /\ Returned /\ inv.op = "disable" /\ inv.session
  /\ Phase("restore") # << >> /\ Phase("restore")[1].ok

\* the removal of the state file was attempted and did not fail
RemovalOk == Phase("remove_state") # << >> /\ Phase("remove_state")[1].ok

\* in past, invocation k was a disable that loaded the session and
\* returned an error
FailedDisable(k) == past[k].op = "disable" /\ past[k].session /\ past[k].ret = "err"

C26_SessionMeansSandbox ==
  (Returned /\ ~NoSession(host))
  => LET st == ParseState(host.state[1]) IN
     /\ host.netns
     /\ host.veth # "none"
     /\ st.wg_ifname \in host.tunnels

\* the remembered prior value of the session persisted on host h
PriorValue(h) == ParseState(h.state[1]).ip_forward_prev

\* C27: an invocation that returns with a session persisted leaves, as
\* remembered prior value, the value the session held when the invocation
\* started, and the value of the forwarding flag at that moment when no
\* session was persisted then: so the remembered value is always the flag
\* of the last moment without session, and an enable that succeeds while a
\* session exists does not replace it.
C27_PriorValueKept ==
  (Returned /\ runs >= 1 /\ ~NoSession(host))
  => PriorValue(host) = (IF NoSession(inv.pre) THEN inv.pre.ip_forward
                         ELSE PriorValue(inv.pre))

\* the pids of the snapshot the locator was called on whose process is in
\* the sandbox's namespace and corresponds to /opt/App: by its exe link,
\* by an argument or an argument's base name, or by its command name
Selected ==
  {pid \in Pids :
     /\ inv.procs0[pid] # None
     /\ LET a == Attrs(inv.procs0[pid][1].kind) IN
        /\ a.ns = Some(<<"net:sillyvpn-ns">>)
        /\ \/ a.exe = Some(<<"/", "opt", "/", "App">>)
           \/ a.cmdline # None /\ \E i \in DOMAIN a.cmdline[1] :
                SameName(FileName(a.cmdline[1][i]), <<"App">>)
           \/ a.comm # None /\ SameName(CommandName(a.comm[1]), <<"App">>)}

\* C28: on a process table that does not change and with the namespace
\* existing, isRunning returns true exactly when the snapshot holds a
\* selected process, and killAll collects exactly the selected processes:
\* isRunning is true if and only if killAll collects at least one pid,
\* whichever of the two tests each applies first.
C28_SameSelection ==
  (Located /\ IsOk(ret) /\ inv.pre.netns /\ churn = 0)
  => IF inv.op = "is_app_running_in_namespace"
     THEN ret.val = (Selected # {})
     ELSE /\ {Collected[k] : k \in DOMAIN Collected} = Selected
          /\ (ret.val > 0) = (Selected # {})

\* C28 happens: on a table holding the application in the host's namespace
\* under pid 1 and, under pid 2, a script that only bears its name, in the
\* sandbox's namespace, isRunning returned true.
C28_Witness ==
  /\ Located /\ inv.op = "is_app_running_in_namespace" /\ IsOk(ret) /\ churn = 0
  /\ inv.procs0[1] # None /\ inv.procs0[1][1].kind = "H"
  /\ inv.procs0[2] # None /\ inv.procs0[2][1].kind = "C"
  /\ ret.val = TRUE /\ Selected = {2}

\* C29: for every configuration, sanitizing the lines the sanitizer wrote
\* gives the same lines again and an empty list of DNS servers.
C29_Idempotent ==
  Sanitized
  => LET again == sanitize_config(ret.output) IN
     /\ again.output = ret.output
     /\ again.dns_servers = << >>

\* C29 happens: a configuration from which the sanitizer removed a DNS=
\* line naming two servers and into which it inserted "Table = off" was
\* sanitized, and its output has three lines.
C29_Witness ==
  /\ Sanitized
  /\ inv.arg = << <<"[Interface]">>, <<"DNS", "=", "1.1.1.1", ",", "8.8.8.8">>,
                  <<"Address", "=", "10.0.0.2/32">> >>
  /\ ret.dns_servers = << <<"1.1.1.1">>, <<"8.8.8.8">> >>
  /\ ret.output = << <<"[Interface]">>, <<"Table", " ", "=", " ", "off">>,
                     <<"Address", "=", "10.0.0.2/32">> >>
  /\ sanitize_config(ret.output).output = ret.output

\* C30: the session enable persisted reads back: after a successful
\* enable, whatever the configuration path (a double quote or a backslash
\* in it included), read_state loads the state file and gives the four
\* values enable wrote; and a disable started on a host where enable
\* persisted a session takes the session path.
C30_SessionRoundTrips ==
  /\ (Returned /\ inv.op = "enable" /\ IsOk(ret))
       => ( /\ host.state # None
            /\ LET st == ParseState(host.state[1]) IN
               /\ st.ok
               /\ st = [ok |-> TRUE,
                        wg_ifname |-> <<"wg-temp">>,
                        config_path |-> inv.arg,
                        temp_config |-> <<"/", "run", "/", "sillyvpn", "/", "wg-temp",
                                          ".", "conf">>,
                        ip_forward_prev |-> inv.pre.ip_forward] )
  /\ (Returned /\ inv.op = "disable" /\ inv.pre.state # None) => inv.session

====
